---- MODULE Spec2Model ----
(***************************************************************************)
(* State-machine model of the ground station backend, groundstation.py:    *)
(* the Flask request handlers start_log, stop_log, telemetry and           *)
(* run_command, and the process-wide state they share.  The development    *)
(* server (app.run, line 925) serves each request on its own thread, so a  *)
(* handler is modelled one statement per step and the steps of different   *)
(* requests interleave.  Strings are sequences of one-character strings.   *)
(* An optional value (Python's None) is <<>> and a present value v is      *)
(* <<v>>.                                                                  *)
(***************************************************************************)
EXTENDS Integers, Sequences, FiniteSets, TLC

VARIABLES
    current_log_file,    \* global, line 20: path of the latest start_log
    current_log_handle,  \* global, line 21: the handle telemetry writes to
    current_cwd,         \* global, line 24: the command cursor
    vbat_min_cached,     \* global _vbat_min_cached, line 29
    vbat_min_queries,    \* VBAT_MIN queries sent to the battery tool so far
    gas_baseline,        \* global _gas_baseline, line 32
    now,                 \* the wall clock, in whole seconds
    handles,             \* every file object open() has returned
    files,               \* the file system: path -> flushed lines
    spawned,             \* the command lines handed to the shell, with cwd
    pc,                  \* per request thread: the statement it is at
    loc,                 \* per request thread: its local variables
    response,            \* the response returned last (HTTP 500 = "raised")
    served,              \* per handle: snapshots returned while current
    nreq                 \* requests begun so far

vars == <<current_log_file, current_log_handle, current_cwd, vbat_min_cached,
          vbat_min_queries, gas_baseline, now, handles, files, spawned, pc, loc, response,
          served, nreq>>

\* ------------------------------------------------------------- bounds
NThreads == 2
MaxTime == 1
\* requests begun in a run: served concurrently, served one after the other,
\* and commands run
MaxRequests == 3
MaxSeqRequests == 3
MaxCmds == 2
\* commands run concurrently
MaxConcCmds == 2
\* battery estimates made
MaxBatteryReads == 2
\* air-quality calls made one after the other, and concurrently
MaxAirCalls == 3
MaxConcAirCalls == 2
\* fire-risk computations made
MaxFireCalls == 2
\* CSV lines formatted
MaxLines == 1
\* cycles of the host-health probes
MaxStatsCalls == 1

Threads == 1..NThreads

\* ------------------------------------------------------ optional values
None == <<>>
Some(v) == <<v>>
Val(o) == o[1]

\* ------------------------------------------------------------- inputs
\* data.get("filename", "fire_mission"): the default and one other hint.
Hints == {"fire_mission", "test"}
\* gas resistance readings of the sensor, ohms; 0 is an invalid reading.
GasReadings == {0, 40}
\* what lifepo4wered-cli reports for VBAT and VBAT_MIN (<<>>: the tool failed).
VbatReadings == {None, Some(3200)}
VbatMinReadings == {None, Some(3000)}

VBAT_MIN_DEFAULT == 2950

\* ------------------------------------------------------------ log paths
\* os.path.join(LOG_DIR, hint + "_" + strftime("%Y%m%d_%H%M%S") + ".csv"):
\* the stamp has a fixed width, so the path determines the pair and the pair
\* the path.  The stamp has a resolution of one second.
LogPath(hint, t) == [hint |-> hint, stamp |-> t]
Paths == {LogPath(h, t) : h \in Hints, t \in 0..MaxTime}

NOTE_LINE == "note"
HEADER_LINE == "header"
ROW_LINE == "row"

\* ------------------------------------------------------------ file objects
\* open(filepath, "w"): creates or truncates the file; the new file object
\* is open and its buffer empty.
OpenW(path) == [path |-> path, open |-> TRUE, buf |-> <<>>]

\* f.write(line): the line goes to the object's buffer.
WriteLine(hs, h, line) == [hs EXCEPT ![h].buf = Append(@, line)]

\* f.flush(): the buffer goes to the file, after what the file holds.
FlushFiles(fs, hs, h) == [fs EXCEPT ![hs[h].path] = @ \o hs[h].buf]
FlushHandle(hs, h) == [hs EXCEPT ![h].buf = <<>>]

\* f.close(): flushes, then the object is closed.  Closing twice is allowed.
CloseHandle(hs, h) == [hs EXCEPT ![h].buf = <<>>, ![h].open = FALSE]

OpenHandles == {h \in 1..Len(handles) : handles[h].open}
Recording == current_log_handle # None

\* ------------------------------------------------------------ responses
\* get_battery_percent's result when VBAT cannot be read: (None, None).
NoBattery == [percent |-> None, mv |-> None]

NoLocals == [filepath |-> None, note |-> FALSE, fh |-> 0,
             cmd |-> <<>>, new_dir |-> <<>>, battery |-> NoBattery, gas |-> 0]

Resp(t, handler) ==
    [handler |-> handler, status |-> "returned", exc |-> "",
     success |-> FALSE, logfile |-> None, output |-> "", error |-> FALSE,
     cwd |-> <<>>, cmd |-> <<>>, recording |-> FALSE, line |-> 0,
     battery_percent |-> None, battery_mv |-> None,
     gas_ohms |-> None, air_quality_index |-> None, air_quality_level |-> "",
     temperature_c |-> None, humidity |-> None, dew_point_c |-> None,
     fire_risk_index |-> None, fire_risk_level |-> "",
     altitude_m |-> None, vin_mv |-> None, vout_mv |-> None,
     load_current_ma |-> None, csv_line |-> <<>>, sys_stats |-> <<>>]

\* An exception that leaves the handler at the given source line: Flask
\* answers HTTP 500.
Raised(t, handler, exc, line) ==
    [Resp(t, handler) EXCEPT !.status = "raised", !.exc = exc, !.line = line]

\* The handler of thread t ends with response r.
Return(t, r) ==
    /\ pc' = [pc EXCEPT ![t] = "idle"]
    /\ loc' = [loc EXCEPT ![t] = NoLocals]
    /\ response' = Some(r)

Goto(t, label) == pc' = [pc EXCEPT ![t] = label]

AllIdle == \A t \in Threads : pc[t] = "idle"

\* A thread takes a new request.
Accept(t) ==
    /\ pc[t] = "idle"
    /\ nreq' = nreq + 1

\* -------------------------------------------------------------- strings
\* A string is a sequence of one-character strings.
WS == {" ", "\t", "\n"}
UPPER == <<"A", "B", "C", "D", "E", "F", "G", "H", "I", "J", "K", "L", "M",
           "N", "O", "P", "Q", "R", "S", "T", "U", "V", "W", "X", "Y", "Z">>
LOWER == <<"a", "b", "c", "d", "e", "f", "g", "h", "i", "j", "k", "l", "m",
           "n", "o", "p", "q", "r", "s", "t", "u", "v", "w", "x", "y", "z">>

\* str.lower()
LowerChar(c) ==
    IF \E i \in 1..Len(UPPER) : UPPER[i] = c
    THEN LOWER[CHOOSE i \in 1..Len(UPPER) : UPPER[i] = c]
    ELSE c
Lower(s) == [i \in 1..Len(s) |-> LowerChar(s[i])]

\* d in s
Contains(s, d) ==
    \E i \in 1..(Len(s) - Len(d) + 1) : SubSeq(s, i, i + Len(d) - 1) = d

\* s.startswith(p)
StartsWith(s, p) == Len(s) >= Len(p) /\ SubSeq(s, 1, Len(p)) = p

\* s.strip() == ""
IsBlank(s) == \A i \in 1..Len(s) : s[i] \in WS

\* s.strip()
Strip(s) ==
    IF IsBlank(s) THEN <<>>
    ELSE LET first == CHOOSE i \in 1..Len(s) :
                        s[i] \notin WS /\ \A j \in 1..(i - 1) : s[j] \in WS
             last == CHOOSE i \in 1..Len(s) :
                        s[i] \notin WS /\ \A j \in (i + 1)..Len(s) : s[j] \in WS
         IN SubSeq(s, first, last)

\* n copies of the character c
Pad(c, n) == [i \in 1..n |-> c]

\* ---------------------------------------------------------- run_command
\* A limit one character too generous.
MAX_CMD_LEN_OFF_BY_ONE == 200 + 1

\* Line 826: the longest command accepted.
MAX_CMD_LEN == 200

\* Lines 844-847: the denylist.
dangerous ==
    { <<"r", "m", " ", "-", "r", "f">>,
      <<"m", "k", "f", "s">>,
      <<"d", "d", " ", "i", "f", "=">>,
      <<":", "(", ")", "{">>,
      <<"s", "u", "d", "o", " ", "r", "m">>,
      <<"s", "h", "u", "t", "d", "o", "w", "n">>,
      <<"h", "a", "l", "t">>,
      <<"m", "k", "l", "a", "b", "e", "l">> }

REBOOT == <<"r", "e", "b", "o", "o", "t">>
CD == <<"c", "d">>

\* Line 848: any(d in cmd.lower() for d in dangerous)
IsDangerous(cmd) == \E d \in dangerous : Contains(Lower(cmd), d)

\* Line 849: "reboot" in cmd.lower()
HasReboot(cmd) == Contains(Lower(cmd), REBOOT)

\* A denylist matched against the raw text, letter case and all.
BlockedCaseSensitive(cmd) ==
    (\E d \in dangerous : Contains(cmd, d)) /\ ~HasReboot(cmd)

\* A denylist without the reboot override.
BlockedNoOverride(cmd) == IsDangerous(cmd)

\* Lines 848-850: the command is refused.
Blocked(cmd) == IsDangerous(cmd) /\ ~HasReboot(cmd)

\* A test for the empty string only.
NoCommandUnstripped(cmd) == cmd = <<>>

\* Line 823: cmd is None or cmd.strip() == "" (a missing command is "").
NoCommand(cmd) == Strip(cmd) = <<>>

\* Line 831: stripped.startswith("cd")
IsCd(cmd) == StartsWith(Strip(cmd), CD)

\* ---------------------------------------------------------------- paths
\* os.path.isabs
IsAbs(p) == StartsWith(p, <<"/">>)

\* os.path.join(a, b)
Join(a, b) ==
    IF IsAbs(b) THEN b
    ELSE IF a = <<>> \/ a[Len(a)] = "/" THEN a \o b
    ELSE a \o <<"/">> \o b

\* path.split("/")
RECURSIVE SplitSlash(_)
SplitSlash(p) ==
    IF \A i \in 1..Len(p) : p[i] # "/" THEN <<p>>
    ELSE LET i == CHOOSE k \in 1..Len(p) :
                    p[k] = "/" /\ \A j \in 1..(k - 1) : p[j] # "/"
         IN <<SubSeq(p, 1, i - 1)>> \o SplitSlash(SubSeq(p, i + 1, Len(p)))

\* "/".join(comps)
RECURSIVE JoinSlash(_)
JoinSlash(comps) ==
    IF comps = <<>> THEN <<>>
    ELSE IF Len(comps) = 1 THEN comps[1]
    ELSE comps[1] \o <<"/">> \o JoinSlash(Tail(comps))

DOT == <<".">>
DOTDOT == <<".", ".">>

\* The loop of posixpath.normpath over the components.
RECURSIVE NormComps(_, _, _)
NormComps(comps, acc, initial_slashes) ==
    IF comps = <<>> THEN acc
    ELSE LET c == Head(comps)
             rest == Tail(comps)
         IN IF c = <<>> \/ c = DOT
            THEN NormComps(rest, acc, initial_slashes)
            ELSE IF \/ c # DOTDOT
                    \/ (initial_slashes = 0 /\ acc = <<>>)
                    \/ (acc # <<>> /\ acc[Len(acc)] = DOTDOT)
            THEN NormComps(rest, Append(acc, c), initial_slashes)
            ELSE IF acc # <<>>
            THEN NormComps(rest, SubSeq(acc, 1, Len(acc) - 1), initial_slashes)
            ELSE NormComps(rest, acc, initial_slashes)

\* posixpath.normpath
NormPath(p) ==
    IF p = <<>> THEN DOT
    ELSE LET initial_slashes ==
                 IF ~IsAbs(p) THEN 0
                 ELSE IF StartsWith(p, <<"/", "/">>)
                         /\ ~StartsWith(p, <<"/", "/", "/">>) THEN 2
                 ELSE 1
             joined == Pad("/", initial_slashes)
                         \o JoinSlash(NormComps(SplitSlash(p), <<>>, initial_slashes))
         IN IF joined = <<>> THEN DOT ELSE joined

\* os.getcwd(): the directory the server was started in.
PROCESS_CWD == <<"/">>

\* os.path.abspath
AbsPath(p) == NormPath(IF IsAbs(p) THEN p ELSE Join(PROCESS_CWD, p))

\* os.path.expanduser("~"): the operator's home directory.
Home == <<"/", "h">>

\* Lines 832-833: parts = stripped.split(None, 1); the target is parts[1], or
\* the home directory when there is no second part.
CdTarget(stripped) ==
    IF \A i \in 1..Len(stripped) : stripped[i] \notin WS THEN Home
    ELSE LET i == CHOOSE k \in 1..Len(stripped) :
                    stripped[k] \in WS /\ \A j \in 1..(k - 1) : stripped[j] \notin WS
         IN Strip(SubSeq(stripped, i + 1, Len(stripped)))

\* A resolution that stores every target as it was given.
NewDirAsGiven(cwd, target) == target

\* A resolution that joins and does not normalize.
NewDirUnnormalized(cwd, target) == Join(cwd, target)

\* Lines 835-838: the directory a cd command resolves to.
NewDir(cwd, target) ==
    IF ~IsAbs(target) THEN AbsPath(Join(cwd, target)) ELSE target

\* The commands the operator sends: the denylisted ones, the same with the
\* reboot override, harmless ones, cd commands, blank ones, and commands at
\* and over the length limit.
DangerousCommands ==
    { <<"s", "h", "u", "t", "d", "o", "w", "n", " ", "-", "h", " ", "n", "o", "w">>,
      <<"s", "u", "d", "o", " ", "r", "m", " ", "-", "r", "f", " ", "/">>,
      <<"m", "k", "f", "s", " ", "/", "d", "e", "v", "/", "s", "d", "a">>,
      <<"d", "d", " ", "i", "f", "=", "/", "d", "e", "v", "/", "z", "e", "r", "o">>,
      <<":", "(", ")", "{", " ", ":", "|", ":", "&", " ", "}", ";", ":">>,
      <<"h", "a", "l", "t">>,
      <<"p", "a", "r", "t", "e", "d", " ", "m", "k", "l", "a", "b", "e", "l", " ", "g", "p", "t">>,
      <<"S", "H", "U", "T", "D", "O", "W", "N", " ", "n", "o", "w">>,
      <<"S", "u", "d", "o", " ", "R", "m", " ", "x">> }
PlainCommands ==
    { <<"l", "s">>,
      <<"e", "c", "h", "o", " ", "c", "d">>,
      <<"r", "e", "b", "o", "o", "t">> }
CdCommands ==
    { <<"c", "d">>,
      <<"c", "d", " ", ".", ".">>,
      <<"c", "d", " ", "/", "a">>,
      <<"c", "d", " ", "/", "a", "/", "b">>,
      <<"c", "d", " ", "x">>,
      <<"c", "d", "r", "o", "m", ";", " ", "h", "a", "l", "t">> }
SpacedCommands ==
    { <<" ", "l", "s">>,
      <<"\t", "h", "a", "l", "t">>,
      <<" ", "c", "d", " ", "/", "a", " ", ";", " ", "h", "a", "l", "t">> }
RebootCommands ==
    { <<"s", "u", "d", "o", " ", "r", "m", " ", "-", "r", "f", " ", "/", " ", ";", " ", "r", "e", "b", "o", "o", "t">>,
      <<"h", "a", "l", "t", " ", "&", "&", " ", "R", "e", "b", "o", "o", "t">>,
      <<"m", "k", "f", "s", " ", "#", "r", "e", "b", "o", "o", "t">> }
BlankCommands == { <<>>, <<" ">>, Pad(" ", MAX_CMD_LEN + 1) }
LongCommands ==
    { <<"h", "a", "l", "t">> \o Pad("x", MAX_CMD_LEN - 4),
      <<"h", "a", "l", "t">> \o Pad("x", MAX_CMD_LEN - 3),
      <<"l", "s", " ">> \o Pad("x", MAX_CMD_LEN - 2),
      <<"c", "d", " ">> \o Pad("x", MAX_CMD_LEN - 2),
      <<"r", "e", "b", "o", "o", "t", " ", "h", "a", "l", "t">> \o Pad("x", MAX_CMD_LEN - 10) }
Commands == DangerousCommands \cup PlainCommands \cup CdCommands
            \cup SpacedCommands \cup RebootCommands \cup BlankCommands
            \cup LongCommands

\* What subprocess.check_output(cmd, shell=True, text=True, timeout=15,
\* cwd=current_cwd) does with a command: it returns the decoded output, or
\* raises on a non-zero exit, on the 15 s timeout, on a working directory it
\* cannot enter, or (text=True) on output of a finished command that is not
\* valid text in the locale's encoding.
Outcomes == {"stdout", "CalledProcessError", "TimeoutExpired", "OSError",
             "UnicodeDecodeError"}

\* The outcomes in which the command ran to its end and exited with status 0.
ExitZero == {"stdout", "UnicodeDecodeError"}

\* Lines 821-850: the command is read and refused, or goes on to the cd
\* branch or to the shell.  A missing command is the empty string.
run_command_check(t) ==
    /\ Accept(t)
    /\ \E cmd \in Commands :
        IF NoCommand(cmd)
        THEN Return(t, [Resp(t, "run_command") EXCEPT
                          !.cmd = cmd, !.cwd = current_cwd])
        ELSE IF Len(cmd) > MAX_CMD_LEN
        THEN Return(t, [Resp(t, "run_command") EXCEPT
                          !.cmd = cmd, !.output = "Command too long",
                          !.error = TRUE, !.cwd = current_cwd])
        ELSE IF IsCd(cmd)
        THEN /\ Goto(t, "cmd_cd")
             /\ loc' = [loc EXCEPT ![t].cmd = cmd]
             /\ UNCHANGED response
        ELSE IF Blocked(cmd)
        THEN Return(t, [Resp(t, "run_command") EXCEPT
                          !.cmd = cmd, !.output = "Blocked: dangerous command",
                          !.error = TRUE, !.cwd = current_cwd])
        ELSE /\ Goto(t, "cmd_exec")
             /\ loc' = [loc EXCEPT ![t].cmd = cmd]
             /\ UNCHANGED response
    /\ UNCHANGED <<current_log_file, current_log_handle, current_cwd,
                   vbat_min_cached, vbat_min_queries, gas_baseline, now, handles, files,
                   spawned, served>>

\* Lines 832-838 and 841-842: the target is resolved against the cursor as
\* it is now; an exception raised by the path arithmetic becomes an error
\* result with the cursor as it is.
run_command_cd_resolve(t) ==
    /\ pc[t] = "cmd_cd"
    /\ \E ok \in BOOLEAN :
        IF ok
        THEN /\ loc' = [loc EXCEPT ![t].new_dir =
                           NewDir(current_cwd, CdTarget(Strip(loc[t].cmd)))]
             /\ Goto(t, "cmd_cd_assign")
             /\ UNCHANGED response
        ELSE Return(t, [Resp(t, "run_command") EXCEPT
                          !.cmd = loc[t].cmd, !.output = "Exception",
                          !.error = TRUE, !.cwd = current_cwd])
    /\ UNCHANGED <<current_log_file, current_log_handle, current_cwd,
                   vbat_min_cached, vbat_min_queries, gas_baseline, now, handles, files,
                   spawned, served, nreq>>

\* A cd that also hands the command line to the shell.
run_command_cd_assign_spawning(t) ==
    /\ pc[t] = "cmd_cd_assign"
    /\ current_cwd' = loc[t].new_dir
    /\ spawned' = Append(spawned, [cmd |-> loc[t].cmd, cwd |-> current_cwd])
    /\ Return(t, [Resp(t, "run_command") EXCEPT
                    !.cmd = loc[t].cmd, !.cwd = loc[t].new_dir])
    /\ UNCHANGED <<current_log_file, current_log_handle, vbat_min_cached, vbat_min_queries,
                   gas_baseline, now, handles, files, served, nreq>>

\* Lines 839-840: the cursor is assigned and returned.
run_command_cd_assign(t) ==
    /\ pc[t] = "cmd_cd_assign"
    /\ current_cwd' = loc[t].new_dir
    /\ Return(t, [Resp(t, "run_command") EXCEPT
                    !.cmd = loc[t].cmd, !.cwd = loc[t].new_dir])
    /\ UNCHANGED <<current_log_file, current_log_handle, vbat_min_cached, vbat_min_queries,
                   gas_baseline, now, handles, files, spawned, served, nreq>>

\* An execution that falls back to the home directory when the command fails.
run_command_exec_resetting(t) ==
    /\ pc[t] = "cmd_exec"
    /\ spawned' = Append(spawned, [cmd |-> loc[t].cmd, cwd |-> current_cwd])
    /\ \E outcome \in Outcomes :
        /\ current_cwd' = IF outcome = "stdout" THEN current_cwd ELSE Home
        /\ Return(t, [Resp(t, "run_command") EXCEPT
                        !.cmd = loc[t].cmd, !.output = outcome,
                        !.error = (outcome # "stdout"), !.cwd = current_cwd'])
    /\ UNCHANGED <<current_log_file, current_log_handle, vbat_min_cached, vbat_min_queries,
                   gas_baseline, now, handles, files, served, nreq>>

\* Lines 852-858: the command line goes to the shell, in the cursor's
\* directory; an exception becomes an error result.
run_command_exec(t) ==
    /\ pc[t] = "cmd_exec"
    /\ spawned' = Append(spawned, [cmd |-> loc[t].cmd, cwd |-> current_cwd])
    /\ \E outcome \in Outcomes :
        Return(t, [Resp(t, "run_command") EXCEPT
                     !.cmd = loc[t].cmd, !.output = outcome,
                     !.error = (outcome # "stdout"), !.cwd = current_cwd])
    /\ UNCHANGED <<current_log_file, current_log_handle, current_cwd,
                   vbat_min_cached, vbat_min_queries, gas_baseline, now, handles, files,
                   served, nreq>>

\* ------------------------------------------------------------ start_log
\* Lines 788-793: the request's inputs, the path from the hint and the
\* clock, and the assignment to current_log_file.
start_log_path(t) ==
    /\ Accept(t)
    /\ \E hint \in Hints, note \in BOOLEAN :
        /\ loc' = [loc EXCEPT ![t].filepath = Some(LogPath(hint, now)),
                              ![t].note = note]
        /\ current_log_file' = Some(LogPath(hint, now))
    /\ Goto(t, "start_open")
    /\ UNCHANGED <<current_log_handle, current_cwd, vbat_min_cached, vbat_min_queries,
                   gas_baseline, now, handles, files, spawned, response,
                   served>>

\* Line 794, right-hand side: open(filepath, "w").  It raises OSError when
\* the file cannot be created.
start_log_open(t) ==
    /\ pc[t] = "start_open"
    /\ \E ok \in BOOLEAN :
        IF ok
        THEN /\ handles' = Append(handles, OpenW(Val(loc[t].filepath)))
             /\ served' = Append(served, 0)
             /\ files' = [files EXCEPT ![Val(loc[t].filepath)] = <<>>]
             /\ loc' = [loc EXCEPT ![t].fh = Len(handles) + 1]
             /\ Goto(t, "start_assign")
             /\ UNCHANGED response
        ELSE /\ Return(t, Raised(t, "start_log", "OSError", 794))
             /\ UNCHANGED <<handles, served, files>>
    /\ UNCHANGED <<current_log_file, current_log_handle, current_cwd,
                   vbat_min_cached, vbat_min_queries, gas_baseline, now, spawned, nreq>>

\* Line 794, the assignment: current_log_handle is rebound to the new file
\* object.  The object it held before is not closed here.
start_log_assign(t) ==
    /\ pc[t] = "start_assign"
    /\ current_log_handle' = Some(loc[t].fh)
    /\ Goto(t, IF loc[t].note THEN "start_note" ELSE "start_header")
    /\ UNCHANGED <<current_log_file, current_cwd, vbat_min_cached, vbat_min_queries,
                   gas_baseline, now, handles, files, spawned, loc, response,
                   served, nreq>>

\* A write through the global current_log_handle, as lines 796, 797 and 918
\* make it: AttributeError when the global is None, ValueError when the file
\* object is closed.
WriteExc == IF current_log_handle = None THEN "AttributeError"
            ELSE IF ~handles[Val(current_log_handle)].open THEN "ValueError"
            ELSE ""

start_log_write(t, label, lineno, line, next) ==
    /\ pc[t] = label
    /\ IF WriteExc = ""
       THEN /\ handles' = WriteLine(handles, Val(current_log_handle), line)
            /\ Goto(t, next)
            /\ UNCHANGED <<loc, response>>
       ELSE /\ Return(t, Raised(t, "start_log", WriteExc, lineno))
            /\ UNCHANGED handles
    /\ UNCHANGED <<current_log_file, current_log_handle, current_cwd,
                   vbat_min_cached, vbat_min_queries, gas_baseline, now, files, spawned,
                   served, nreq>>

\* Lines 795-796: the note line, when a note was given.
start_log_note(t) == start_log_write(t, "start_note", 796, NOTE_LINE, "start_header")

\* Lines 797-802: the CSV header.
start_log_header(t) == start_log_write(t, "start_header", 797, HEADER_LINE, "start_flush")

\* Lines 803-805: flush, then the response with the path.
start_log_flush(t) ==
    /\ pc[t] = "start_flush"
    /\ IF WriteExc = ""
       THEN /\ files' = FlushFiles(files, handles, Val(current_log_handle))
            /\ handles' = FlushHandle(handles, Val(current_log_handle))
            /\ Return(t, [Resp(t, "start_log") EXCEPT
                            !.success = TRUE, !.logfile = loc[t].filepath])
       ELSE /\ Return(t, Raised(t, "start_log", WriteExc, 803))
            /\ UNCHANGED <<handles, files>>
    /\ UNCHANGED <<current_log_file, current_log_handle, current_cwd,
                   vbat_min_cached, vbat_min_queries, gas_baseline, now, spawned, served, nreq>>

\* ------------------------------------------------------------- stop_log
\* A stop_log that clears the recorded path even when Idle.
stop_log_check_clearing(t) ==
    /\ Accept(t)
    /\ IF current_log_handle # None
       THEN /\ Goto(t, "stop_close")
            /\ UNCHANGED <<loc, response, current_log_file>>
       ELSE /\ Return(t, [Resp(t, "stop_log") EXCEPT !.success = TRUE])
            /\ current_log_file' = None
    /\ UNCHANGED <<current_log_handle, current_cwd, vbat_min_cached, vbat_min_queries,
                   gas_baseline, now, handles, files, spawned, served>>

\* Line 811: if current_log_handle (a file object is true, open or closed);
\* otherwise line 815, success.
stop_log_check(t) ==
    /\ Accept(t)
    /\ IF current_log_handle # None
       THEN /\ Goto(t, "stop_close")
            /\ UNCHANGED <<loc, response>>
       ELSE Return(t, [Resp(t, "stop_log") EXCEPT !.success = TRUE])
    /\ UNCHANGED <<current_log_file, current_log_handle, current_cwd,
                   vbat_min_cached, vbat_min_queries, gas_baseline, now, handles, files,
                   spawned, served>>

\* Line 812: current_log_handle.close().
stop_log_close(t) ==
    /\ pc[t] = "stop_close"
    /\ IF current_log_handle = None
       THEN /\ Return(t, Raised(t, "stop_log", "AttributeError", 812))
            /\ UNCHANGED <<handles, files>>
       ELSE /\ files' = FlushFiles(files, handles, Val(current_log_handle))
            /\ handles' = CloseHandle(handles, Val(current_log_handle))
            /\ Goto(t, "stop_clear")
            /\ UNCHANGED <<loc, response>>
    /\ UNCHANGED <<current_log_file, current_log_handle, current_cwd,
                   vbat_min_cached, vbat_min_queries, gas_baseline, now, spawned, served, nreq>>

\* Lines 813-815: the global is cleared; current_log_file is only printed.
stop_log_clear(t) ==
    /\ pc[t] = "stop_clear"
    /\ current_log_handle' = None
    /\ Return(t, [Resp(t, "stop_log") EXCEPT
                    !.success = TRUE, !.recording = TRUE])
    /\ UNCHANGED <<current_log_file, current_cwd, vbat_min_cached, vbat_min_queries,
                   gas_baseline, now, handles, files, spawned, served, nreq>>

\* -------------------------------------------------------------- battery
\* What lifepo4wered-cli reports for VBAT, mV, when the battery estimate is
\* looked at on its own: around the fallback floor, around the floors below,
\* around the full voltage, and above it (<<>>: the tool failed).
MvReadings == {-1, 0} \cup (2948..2953) \cup (3298..3306) \cup (3490..3503)
              \cup (3598..3602)
BatteryReadings == {None} \cup {Some(mv) : mv \in MvReadings}
\* What it reports for VBAT_MIN: a floor below the full voltage, one close
\* to it, one equal to it and one above it (<<>>: the tool failed).
FloorReadings == {None, Some(3300), Some(3492), Some(3500), Some(3600)}

\* A full voltage of 3600 mV.
VBAT_MAX_WRONG == 3500 + 100

\* Line 28.
VBAT_MAX_DEFAULT == 3500

\* int(round(n / d)) for d > 0: Python 3 rounds a half to the even integer.
\* The quotient of two integers of this size is a half in floating point
\* exactly when it is one.
RoundHalfEven(n, d) ==
    LET q == n \div d
        r == n % d
    IN IF 2 * r < d THEN q
       ELSE IF 2 * r > d THEN q + 1
       ELSE IF q % 2 = 0 THEN q ELSE q + 1

\* A mapping that tests for the full voltage before it tests for the floor.
BatteryPercentFullFirst(mv, vmin) ==
    IF mv >= VBAT_MAX_DEFAULT THEN 100
    ELSE IF mv <= vmin THEN 0
    ELSE RoundHalfEven((mv - vmin) * 100, VBAT_MAX_DEFAULT - vmin)

\* A mapping that interpolates from the full voltage down.
BatteryPercentInverted(mv, vmin) ==
    IF mv <= vmin THEN 0
    ELSE IF mv >= VBAT_MAX_DEFAULT THEN 100
    ELSE RoundHalfEven((VBAT_MAX_DEFAULT - mv) * 100, VBAT_MAX_DEFAULT - vmin)

\* Lines 76-83: the linear mapping from the floor to the full voltage.
BatteryPercent(mv, vmin) ==
    IF mv <= vmin THEN 0
    ELSE IF mv >= VBAT_MAX_DEFAULT THEN 100
    ELSE RoundHalfEven((mv - vmin) * 100, VBAT_MAX_DEFAULT - vmin)

\* A floor that is queried again by every estimate.
VbatMinAfterRequery(vbat, cached, query) ==
    IF vbat = None THEN cached
    ELSE IF query = None THEN Some(VBAT_MIN_DEFAULT)
    ELSE query

\* get_battery_percent and get_vbat_min, lines 50-63 and 71-75: the floor is
\* looked up only when VBAT was read, and queried only when nothing is cached.
VbatMinAfter(vbat, cached, query) ==
    IF vbat = None THEN cached
    ELSE IF cached # None THEN cached
    ELSE IF query = None THEN Some(VBAT_MIN_DEFAULT)
    ELSE query

\* Line 59 is reached, and the battery tool asked for VBAT_MIN, when VBAT was
\* read and line 56 found nothing cached.
QueriesAfter(vbat, cached, queries) ==
    IF vbat # None /\ cached = None THEN queries + 1 ELSE queries

\* An estimate that reports an unreadable battery as empty.
BatteryOutputsZero(vbat, cached) ==
    IF vbat = None THEN [percent |-> Some(0), mv |-> None]
    ELSE [percent |-> Some(BatteryPercent(Val(vbat), Val(cached))), mv |-> vbat]

\* Lines 71-85: (None, None) when VBAT cannot be read (lifepo4_get, lines
\* 40-47, returns None when the tool fails or prints no number), otherwise
\* the percent over the cached floor and the reading.
BatteryOutputs(vbat, cached) ==
    IF vbat = None THEN NoBattery
    ELSE [percent |-> Some(BatteryPercent(Val(vbat), Val(cached))), mv |-> vbat]

\* Lines 66-85, with get_vbat_min, lines 50-63: VBAT is read; when the read
\* fails the result is (None, None) and the floor is not looked up; otherwise
\* the floor comes from the cache, or is queried, cached and used.
get_battery_percent(t) ==
    /\ Accept(t)
    /\ \E vbat \in BatteryReadings, query \in FloorReadings :
        /\ vbat_min_cached' = VbatMinAfter(vbat, vbat_min_cached, query)
        /\ vbat_min_queries' =
              QueriesAfter(vbat, vbat_min_cached, vbat_min_queries)
        /\ Return(t, [Resp(t, "get_battery_percent") EXCEPT
                        !.battery_percent =
                            BatteryOutputs(vbat, vbat_min_cached').percent,
                        !.battery_mv =
                            BatteryOutputs(vbat, vbat_min_cached').mv])
    /\ UNCHANGED <<current_log_file, current_log_handle, current_cwd,
                   gas_baseline, now, handles, files, spawned, served>>

\* ------------------------------------------------------------ telemetry
\* compute_air_quality_index, lines 165-171: the first positive reading
\* becomes the baseline.
BaselineAfter(gas, baseline) ==
    IF gas <= 0 THEN baseline
    ELSE IF baseline = None THEN Some(gas)
    ELSE baseline

\* Lines 863-887: the sensor and battery reads and the response object.  A
\* sensor read that raises (bme.temperature ... bme.gas, lines 193-196) leaves
\* the handler before anything else happens.
telemetry_snapshot(t) ==
    /\ Accept(t)
    /\ \E bme_ok \in BOOLEAN :
        IF bme_ok
        THEN /\ \E gas \in GasReadings :
                  gas_baseline' = BaselineAfter(gas, gas_baseline)
             /\ \E vbat \in VbatReadings, query \in VbatMinReadings :
                  /\ vbat_min_cached' =
                        VbatMinAfter(vbat, vbat_min_cached, query)
                  /\ vbat_min_queries' =
                        QueriesAfter(vbat, vbat_min_cached, vbat_min_queries)
                  /\ loc' = [loc EXCEPT ![t].battery =
                                BatteryOutputs(vbat, vbat_min_cached')]
             /\ Goto(t, "tel_check")
             /\ UNCHANGED response
        ELSE /\ Return(t, Raised(t, "telemetry", "SensorError", 863))
             /\ UNCHANGED <<gas_baseline, vbat_min_cached, vbat_min_queries>>
    /\ UNCHANGED <<current_log_file, current_log_handle, current_cwd, now,
                   handles, files, spawned, served>>

\* Line 889: if current_log_handle; otherwise line 921, the snapshot.
telemetry_check(t) ==
    /\ pc[t] = "tel_check"
    /\ IF current_log_handle # None
       THEN /\ Goto(t, "tel_write")
            /\ UNCHANGED <<loc, response>>
       ELSE Return(t, [Resp(t, "telemetry") EXCEPT
                         !.success = TRUE,
                         !.battery_percent = loc[t].battery.percent,
                         !.battery_mv = loc[t].battery.mv])
    /\ UNCHANGED <<current_log_file, current_log_handle, current_cwd,
                   vbat_min_cached, vbat_min_queries, gas_baseline, now, handles, files,
                   spawned, served, nreq>>

\* A telemetry that writes its row twice.
RowWrittenTwice(hs, h) == WriteLine(WriteLine(hs, h, ROW_LINE), h, ROW_LINE)

\* What line 918 puts into the buffer of file object h.
RowWritten(hs, h) == WriteLine(hs, h, ROW_LINE)

\* Lines 890-918: the row is formatted and written through the global.  The
\* write raises OSError when the device fails.
telemetry_write(t) ==
    /\ pc[t] = "tel_write"
    /\ IF WriteExc # ""
       THEN /\ Return(t, Raised(t, "telemetry", WriteExc, 918))
            /\ UNCHANGED handles
       ELSE \E io_ok \in BOOLEAN :
              IF io_ok
              THEN /\ handles' = RowWritten(handles, Val(current_log_handle))
                   /\ Goto(t, "tel_flush")
                   /\ UNCHANGED <<loc, response>>
              ELSE /\ Return(t, Raised(t, "telemetry", "OSError", 918))
                   /\ UNCHANGED handles
    /\ UNCHANGED <<current_log_file, current_log_handle, current_cwd,
                   vbat_min_cached, vbat_min_queries, gas_baseline, now, files, spawned,
                   served, nreq>>

\* A telemetry that leaves its row in the buffer.
telemetry_flush_deferred(t) ==
    /\ pc[t] = "tel_flush"
    /\ IF WriteExc # ""
       THEN /\ Return(t, Raised(t, "telemetry", WriteExc, 919))
            /\ UNCHANGED served
       ELSE /\ served' = [served EXCEPT ![Val(current_log_handle)] = @ + 1]
            /\ Return(t, [Resp(t, "telemetry") EXCEPT
                            !.success = TRUE, !.recording = TRUE,
                            !.battery_percent = loc[t].battery.percent,
                            !.battery_mv = loc[t].battery.mv])
    /\ UNCHANGED <<current_log_file, current_log_handle, current_cwd,
                   vbat_min_cached, vbat_min_queries, gas_baseline, now,
                   spawned, nreq, handles, files>>

\* Lines 919-921: flush through the global, then the snapshot is returned.
telemetry_flush(t) ==
    /\ pc[t] = "tel_flush"
    /\ IF WriteExc # ""
       THEN /\ Return(t, Raised(t, "telemetry", WriteExc, 919))
            /\ UNCHANGED <<handles, files, served>>
       ELSE /\ files' = FlushFiles(files, handles, Val(current_log_handle))
            /\ handles' = FlushHandle(handles, Val(current_log_handle))
            /\ served' = [served EXCEPT ![Val(current_log_handle)] = @ + 1]
            /\ Return(t, [Resp(t, "telemetry") EXCEPT
                            !.success = TRUE, !.recording = TRUE,
                            !.battery_percent = loc[t].battery.percent,
                            !.battery_mv = loc[t].battery.mv])
    /\ UNCHANGED <<current_log_file, current_log_handle, current_cwd,
                   vbat_min_cached, vbat_min_queries, gas_baseline, now, spawned, nreq>>

\* ---------------------------------------------------------- environment
\* The clock advances.
Tick ==
    /\ now < MaxTime
    /\ now' = now + 1
    /\ UNCHANGED <<current_log_file, current_log_handle, current_cwd,
                   vbat_min_cached, vbat_min_queries, gas_baseline, handles, files, spawned,
                   pc, loc, response, served, nreq>>

\* A file object nothing refers to any more (line 794 rebound the global) is
\* closed whenever the runtime finalizes it: at once under reference
\* counting, later or never under another collector.
Unreferenced(h) ==
    /\ current_log_handle # Some(h)
    /\ \A t \in Threads : loc[t].fh # h

Finalize(h) ==
    /\ handles[h].open
    /\ Unreferenced(h)
    /\ files' = FlushFiles(files, handles, h)
    /\ handles' = CloseHandle(handles, h)
    /\ UNCHANGED <<current_log_file, current_log_handle, current_cwd,
                   vbat_min_cached, vbat_min_queries, gas_baseline, now, spawned, pc, loc,
                   response, served, nreq>>

\* ----------------------------------------------------------- air quality
\* What the caller passes for gas_ohms: nothing, a non-positive number, or a
\* resistance in ohms.  The resistances hold pairs one the half of the other,
\* ratios on both sides of the clamp, and ratios whose index falls halfway
\* between two integers.
AirGasOhms == {1, 4, 5, 10, 20, 30, 40, 80, 5000}
AirGasReadings == {None, Some(-5), Some(0)} \cup {Some(g) : g \in AirGasOhms}

\* min() and max(), lines 175 and 140-150.
Min(a, b) == IF a <= b THEN a ELSE b
Max(a, b) == IF a >= b THEN a ELSE b

\* A delta that is not clamped from above.
AirDeltaTimesGasUnclamped(gas, baseline) == Max(0 - gas, baseline - gas)

\* Lines 173-175, delta = max(-1.0, min(4.0, baseline / gas - 1.0)), as the
\* exact multiple delta * gas.
AirDeltaTimesGas(gas, baseline) ==
    Max(0 - gas, Min(4 * gas, baseline - gas))

\* An index that is twice the ratio's share.
AirQualityIndicesDoubled(gas, baseline) ==
    {(50 * gas + 100 * AirDeltaTimesGas(gas, baseline)) \div gas}

\* Line 176, int(round(50 + delta * 50)): the integer nearest to the exact
\* value.  Where the exact value is halfway between two integers the floating
\* point value is the half itself or lies just beside it, and round() gives
\* the one neighbour or the other: both are outcomes.
AirQualityIndices(gas, baseline) ==
    LET n == 50 * gas + 50 * AirDeltaTimesGas(gas, baseline)
        q == n \div gas
        r == n % gas
    IN IF 2 * r < gas THEN {q}
       ELSE IF 2 * r > gas THEN {q + 1}
       ELSE {q, q + 1}

\* Lines 178-187.
AirQualityLevel(aqi) ==
    IF aqi <= 50 THEN "Good"
    ELSE IF aqi <= 100 THEN "Moderate"
    ELSE IF aqi <= 150 THEN "Unhealthy-SG"
    ELSE IF aqi <= 200 THEN "Unhealthy"
    ELSE "Very Unhealthy"

\* The result (aqi, level) of a call made with gas_ohms.
AirResult(t, gas, aqi, level) ==
    [Resp(t, "compute_air_quality_index") EXCEPT
        !.gas_ohms = gas, !.air_quality_index = aqi,
        !.air_quality_level = level]

\* A check that forgets the baseline when the reading is missing or not
\* positive.
compute_air_quality_index_check_resetting(t) ==
    /\ Accept(t)
    /\ \E gas \in AirGasReadings :
        IF gas = None \/ Val(gas) <= 0
        THEN /\ Return(t, AirResult(t, gas, None, ""))
             /\ gas_baseline' = None
        ELSE /\ loc' = [loc EXCEPT ![t].gas = Val(gas)]
             /\ Goto(t, IF gas_baseline = None THEN "aq_assign"
                        ELSE "aq_compute")
             /\ UNCHANGED <<response, gas_baseline>>
    /\ UNCHANGED <<current_log_file, current_log_handle, current_cwd,
                   vbat_min_cached, vbat_min_queries, now,
                   handles, files, spawned, served>>

\* Lines 165-169: a missing or non-positive reading returns (None, None);
\* otherwise the baseline is tested, and the call goes on to assign it or
\* to compute with it.  The level None is the empty string.
compute_air_quality_index_check(t) ==
    /\ Accept(t)
    /\ \E gas \in AirGasReadings :
        IF gas = None \/ Val(gas) <= 0
        THEN Return(t, AirResult(t, gas, None, ""))
        ELSE /\ loc' = [loc EXCEPT ![t].gas = Val(gas)]
             /\ Goto(t, IF gas_baseline = None THEN "aq_assign"
                        ELSE "aq_compute")
             /\ UNCHANGED response
    /\ UNCHANGED <<current_log_file, current_log_handle, current_cwd,
                   vbat_min_cached, vbat_min_queries, gas_baseline, now,
                   handles, files, spawned, served>>

\* Lines 170-171: the reading becomes the baseline and the call returns
\* (50, "Good").
compute_air_quality_index_assign(t) ==
    /\ pc[t] = "aq_assign"
    /\ gas_baseline' = Some(loc[t].gas)
    /\ Return(t, AirResult(t, Some(loc[t].gas), Some(50), "Good"))
    /\ UNCHANGED <<current_log_file, current_log_handle, current_cwd,
                   vbat_min_cached, vbat_min_queries, now, handles, files,
                   spawned, served, nreq>>

\* A computation that takes its reading for the new baseline.
compute_air_quality_index_compute_rebasing(t) ==
    /\ pc[t] = "aq_compute"
    /\ gas_baseline' = Some(loc[t].gas)
    /\ \E aqi \in AirQualityIndices(loc[t].gas, Val(gas_baseline)) :
          Return(t, AirResult(t, Some(loc[t].gas), Some(aqi),
                              AirQualityLevel(aqi)))
    /\ UNCHANGED <<current_log_file, current_log_handle, current_cwd,
                   vbat_min_cached, vbat_min_queries, now, handles, files,
                   spawned, served, nreq>>

\* Lines 173-189: the index from the ratio of the baseline to the reading,
\* and its tier.
compute_air_quality_index_compute(t) ==
    /\ pc[t] = "aq_compute"
    /\ \E aqi \in AirQualityIndices(loc[t].gas, Val(gas_baseline)) :
          Return(t, AirResult(t, Some(loc[t].gas), Some(aqi),
                              AirQualityLevel(aqi)))
    /\ UNCHANGED <<current_log_file, current_log_handle, current_cwd,
                   vbat_min_cached, vbat_min_queries, gas_baseline, now,
                   handles, files, spawned, served, nreq>>

\* ------------------------------------------------------------- fire risk
\* Temperatures in degrees Celsius and relative humidities in percent as the
\* sensor may report them (a humidity above 100 or not above 0 is a faulty
\* reading); dew points in hundredths of a degree.
FireTemps == {-40, -37, -10, 0, 5, 6, 10, 20, 30, 32, 35, 38, 40, 50, 85}
FireHumidities ==
    {-5, 0, 1, 5, 10, 15, 20, 30, 40, 50, 60, 70, 80, 90, 95, 100, 110}

\* A number of degrees: c hundredths of a degree, and e units of 10^-18
\* degree for what double precision leaves below that.
Degrees(c, e) == [c |-> c, e |-> e]

\* What a caller of compute_fire_risk_index may pass: each argument may be
\* None, and the dew point need not be the one of the other two.
ArgTemps == {None, Some(-40), Some(5), Some(20), Some(32), Some(85)}
ArgHumidities ==
    {None, Some(-5), Some(0), Some(15), Some(60), Some(100), Some(110)}
ArgDewPoints ==
    {None} \cup {Some(Degrees(c, 0)) :
                    c \in {-5000, 0, 1700, 2500, 3200, 9000}}

\* math.log(rh / 100.0), line 111, in units of 10^-4.
LN4(rh) ==
    CASE rh = 1 -> 0 - 46052
      [] rh = 5 -> 0 - 29957
      [] rh = 10 -> 0 - 23026
      [] rh = 15 -> 0 - 18971
      [] rh = 20 -> 0 - 16094
      [] rh = 30 -> 0 - 12040
      [] rh = 40 -> 0 - 9163
      [] rh = 50 -> 0 - 6931
      [] rh = 60 -> 0 - 5108
      [] rh = 70 -> 0 - 3567
      [] rh = 80 -> 0 - 2231
      [] rh = 90 -> 0 - 1054
      [] rh = 95 -> 0 - 513
      [] rh = 100 -> 0
      [] rh = 110 -> 953

\* Line 112 at rh = 100, where gamma is a * T / (b + T) and the quotient is
\* T itself: what the double-precision evaluation of lines 111-112 returns,
\* less T, in units of 10^-18 degree.
DewRounding(T) ==
    CASE T = -37 -> 0 - 7105
      [] T = 6 -> 0 - 888
      [] T = 30 -> 3553
      [] T = 32 -> 7105
      [] T = 38 -> 0 - 7105
      [] T = 50 -> 0 - 7105
      [] OTHER -> 0

\* compute_dew_point_c, lines 101-113: None unless rh > 0; otherwise the
\* Magnus formula with a = 17.62 and b = 243.12, gamma in units of 10^-4 and
\* the dew point in hundredths.
compute_dew_point_c(T, rh) ==
    IF rh <= 0 THEN None
    ELSE LET u4 == RoundHalfEven(17620000 * T, 24312 + 100 * T)
             gamma4 == LN4(rh) + u4
         IN Some(Degrees(RoundHalfEven(24312 * gamma4, 176200 - gamma4),
                         IF rh = 100 THEN DewRounding(T) ELSE 0))

\* max(lo, min(hi, x)), lines 131, 134, 139 and 142.
Clamp(x, lo, hi) == Max(lo, Min(hi, x))

\* Lines 135-138: max(0.0, temp_c - dew_point_c), or 0.0 without a dew point.
DewSpread(T, dew) ==
    IF dew = None THEN Degrees(0, 0)
    ELSE LET c == 100 * T - Val(dew).c
         IN IF c > 0 THEN Degrees(c, 0)
            ELSE IF c < 0 THEN Degrees(0, 0)
            ELSE Degrees(0, Max(0, 0 - Val(dew).e))

\* A temperature term that is normalised over 5..65 degrees.
TempTermWide(T) == 150 * Clamp(T - 5, 0, 60)

\* Lines 130-131, 0.3 * t_norm * 100 with t_norm 0 at 5 degrees and 1 at 35,
\* in units of 1/300 of a point.
TempTerm(T) == 300 * Clamp(T - 5, 0, 30)

\* Line 134, 0.5 * rh_norm * 100 with rh_norm 1 at 0 % and 0 at 100 %, in
\* units of 1/300.
HumidityTerm(rh) == 150 * (100 - Clamp(rh, 0, 100))

\* Line 139, 0.2 * dew_norm * 100 with dew_norm 1 at a spread of 15 degrees,
\* in units of 1/300.
DewTerm(spread) == 4 * Clamp(spread.c, 0, 1500)

\* Lines 141-142: the score, u units of 1/300 of a point and e units of
\* 10^-18 point.
FireRiskScore(T, rh, dew) ==
    [u |-> Clamp(HumidityTerm(rh) + TempTerm(T) + DewTerm(DewSpread(T, dew)),
                 0, 30000),
     e |-> (4 * DewSpread(T, dew).e) \div 3]

\* Tiers that take a threshold into the tier below it.
FireRiskLevelInclusive(score) ==
    IF score.u <= 6000 THEN "Low"
    ELSE IF score.u <= 12000 THEN "Moderate"
    ELSE IF score.u <= 18000 THEN "High"
    ELSE IF score.u <= 24000 THEN "Very High"
    ELSE "Extreme"

\* Lines 144-153: score < 20, < 40, < 60, < 80, in units of 1/300.
FireRiskLevel(score) ==
    IF score.u < 6000 THEN "Low"
    ELSE IF score.u < 12000 THEN "Moderate"
    ELSE IF score.u < 18000 THEN "High"
    ELSE IF score.u < 24000 THEN "Very High"
    ELSE "Extreme"

\* compute_fire_risk_index, lines 116-155: (None, None) without a
\* temperature or a humidity, otherwise (score, level).  The level None is
\* the empty string.
FireRisk(temp, rh, dew) ==
    IF temp = None \/ rh = None THEN [index |-> None, level |-> ""]
    ELSE LET score == FireRiskScore(Val(temp), Val(rh), dew)
         IN [index |-> Some(score), level |-> FireRiskLevel(score)]

\* A call of compute_fire_risk_index with arguments of the caller's choice.
compute_fire_risk_index(t) ==
    /\ Accept(t)
    /\ \E temp \in ArgTemps, rh \in ArgHumidities, dew \in ArgDewPoints :
          Return(t, [Resp(t, "compute_fire_risk_index") EXCEPT
                        !.temperature_c = temp,
                        !.humidity = rh,
                        !.dew_point_c = dew,
                        !.fire_risk_index = FireRisk(temp, rh, dew).index,
                        !.fire_risk_level = FireRisk(temp, rh, dew).level])
    /\ UNCHANGED <<current_log_file, current_log_handle, current_cwd,
                   vbat_min_cached, vbat_min_queries, gas_baseline, now,
                   handles, files, spawned, served>>

\* compute_air_quality_index, lines 165-189, called by one caller at a time:
\* the results it may return for a reading.
AirResults(gas, baseline) ==
    IF gas <= 0 THEN {[index |-> None, level |-> ""]}
    ELSE IF baseline = None THEN {[index |-> Some(50), level |-> "Good"]}
    ELSE {[index |-> Some(aqi), level |-> AirQualityLevel(aqi)] :
             aqi \in AirQualityIndices(gas, Val(baseline))}

\* get_bme_readings, lines 192-220: the sensor is read (a read that raises
\* ends the call, lines 193-196), the dew point is derived from the
\* temperature and the humidity read, the fire risk from all three, and the
\* air quality from the gas resistance.
get_bme_readings(t) ==
    /\ Accept(t)
    /\ \E bme_ok \in BOOLEAN :
        IF bme_ok
        THEN \E T \in FireTemps, rh \in FireHumidities, gas \in GasReadings :
               LET dew == compute_dew_point_c(T, rh)
                   fire == FireRisk(Some(T), Some(rh), dew)
               IN /\ gas_baseline' = BaselineAfter(gas, gas_baseline)
                  /\ \E air \in AirResults(gas, gas_baseline) :
                       Return(t, [Resp(t, "get_bme_readings") EXCEPT
                                    !.temperature_c = Some(T),
                                    !.humidity = Some(rh),
                                    !.dew_point_c = dew,
                                    !.fire_risk_index = fire.index,
                                    !.fire_risk_level = fire.level,
                                    !.gas_ohms = Some(gas),
                                    !.air_quality_index = air.index,
                                    !.air_quality_level = air.level])
        ELSE /\ Return(t, Raised(t, "get_bme_readings", "SensorError", 193))
             /\ UNCHANGED gas_baseline
    /\ UNCHANGED <<current_log_file, current_log_handle, current_cwd,
                   vbat_min_cached, vbat_min_queries, now, handles, files,
                   spawned, served>>

\* ------------------------------------------------------------ CSV line
DIGITS == <<"0", "1", "2", "3", "4", "5", "6", "7", "8", "9">>

\* str(n) for an int n >= 0: its decimal digits.
RECURSIVE StrNat(_)
StrNat(n) ==
    IF n < 10 THEN <<DIGITS[n + 1]>>
    ELSE StrNat(n \div 10) \o <<DIGITS[(n % 10) + 1]>>

\* str(n) for an int, as an f-string renders it (lines 906-907, 910-912,
\* 915).
StrInt(n) == IF n < 0 THEN <<"-">> \o StrNat(0 - n) ELSE StrNat(n)

\* The last d digits of n, with leading zeros.
RECURSIVE Frac(_, _)
Frac(n, d) ==
    IF d = 0 THEN <<>>
    ELSE Frac(n \div 10, d - 1) \o <<DIGITS[(n % 10) + 1]>>

\* "{:.df}".format(x) and format(x, ".df") for the number x = n / 10^d.
Pow10(d) == IF d = 0 THEN 1 ELSE IF d = 1 THEN 10 ELSE IF d = 2 THEN 100 ELSE 1000
FormatFixed(n, d) ==
    LET m == IF n < 0 THEN 0 - n ELSE n
    IN (IF n < 0 THEN <<"-">> ELSE <<>>)
       \o StrNat(m \div Pow10(d))
       \o (IF d = 0 THEN <<>> ELSE <<".">> \o Frac(m % Pow10(d), d))

\* A rendering in which every falsy value, 0 among them, gives the empty
\* string: f"{v or ''}".
RenderIntFalsy(v) ==
    IF v = None \/ v = Some(0) THEN <<>> ELSE StrInt(Val(v))

\* f"{'' if v is None else v}" for an int v (lines 906-907, 910-912, 915).
RenderInt(v) == IF v = None THEN <<>> ELSE StrInt(Val(v))

\* fmt(v, "{:.df}"), lines 893-898, and '' if v is None else format(v,
\* ".df"), lines 908-909 and 913, for a float v given as n / 10^d.
RenderFixed(v, d) == IF v = None THEN <<>> ELSE FormatFixed(Val(v), d)

\* Lines 914 and 916: a level, or the empty string for None.  A level is
\* one piece of text.
RenderLevel(level) == IF level = "" THEN <<>> ELSE <<level>>

\* The fire-risk score to one decimal, in tenths of a point.
ScoreTenths(index) ==
    IF index = None THEN None ELSE Some(RoundHalfEven(Val(index).u, 30))

\* Lines 900-917: the columns of the line, by the names of the header (lines
\* 798-801).  timestamp_iso and pressure_hpa, which are always present, are
\* left out.
CsvLine(snap) ==
    [timestamp_unix |-> FormatFixed(1000 * snap.timestamp, 3),
     temperature_c |-> RenderFixed(Some(100 * Val(snap.temperature_c)), 2),
     humidity |-> RenderFixed(Some(10 * Val(snap.humidity)), 1),
     gas_ohms |-> RenderFixed(snap.gas_ohms, 0),
     battery_percent |-> RenderInt(snap.battery_percent),
     battery_mv |-> RenderInt(snap.battery_mv),
     dew_point_c |->
        RenderFixed(IF snap.dew_point_c = None THEN None
                    ELSE Some(Val(snap.dew_point_c).c), 2),
     altitude_m |-> RenderFixed(snap.altitude_m, 2),
     input_voltage_mv |-> RenderInt(snap.vin_mv),
     output_voltage_mv |-> RenderInt(snap.vout_mv),
     load_current_ma |-> RenderInt(snap.load_current_ma),
     fire_risk_index |-> RenderFixed(ScoreTenths(snap.fire_risk_index), 1),
     fire_risk_level |-> RenderLevel(snap.fire_risk_level),
     air_quality_index |-> RenderInt(snap.air_quality_index),
     air_quality_level |-> RenderLevel(snap.air_quality_level)]

\* What the reads of a telemetry request may give: the sensor (a humidity
\* of 0 leaves the dew point undefined), the battery tool for VBAT, VIN,
\* VOUT and IOUT (<<>>: the tool failed; a battery at 0 mV is estimated 0
\* percent), and the altitude in hundredths of a metre (<<>>: the driver has
\* none, lines 198-201).
LineTemps == {-10, 32}
LineHumidities == {0, 15, 100}
LineVbat == {None, Some(0), Some(3200)}
LineExtended == {None, Some(0)}
LineAltitudes == {None, Some(12345)}

\* Lines 863-887: the snapshot of a request from what was read, with the
\* floor at its default and the baseline fixed or not.
Snapshot(T, rh, gas, air, vbat, vin, vout, iout, alt, time) ==
    LET dew == compute_dew_point_c(T, rh)
        fire == FireRisk(Some(T), Some(rh), dew)
        battery == BatteryOutputs(vbat, Some(VBAT_MIN_DEFAULT))
    IN [timestamp |-> time,
        temperature_c |-> Some(T), humidity |-> Some(rh),
        gas_ohms |-> Some(gas), dew_point_c |-> dew,
        fire_risk_index |-> fire.index, fire_risk_level |-> fire.level,
        air_quality_index |-> air.index, air_quality_level |-> air.level,
        battery_percent |-> battery.percent, battery_mv |-> battery.mv,
        altitude_m |-> alt, vin_mv |-> vin, vout_mv |-> vout,
        load_current_ma |-> iout]

\* Lines 890-917, the line that telemetry formats while a session is
\* recording, as a function of the snapshot: the response holds the snapshot
\* and the line.  (Writing the line is telemetry_write, which does not look
\* into it.)
telemetry_line(t) ==
    /\ Accept(t)
    /\ \E T \in LineTemps, rh \in LineHumidities, gas \in GasReadings,
          baseline \in {None, Some(40)}, vbat \in LineVbat,
          vin \in LineExtended, vout \in LineExtended, iout \in LineExtended,
          alt \in LineAltitudes :
        \E air \in AirResults(gas, baseline) :
          LET snap == Snapshot(T, rh, gas, air, vbat, vin, vout, iout, alt, now)
          IN Return(t, [Resp(t, "telemetry_line") EXCEPT
                          !.temperature_c = snap.temperature_c,
                          !.humidity = snap.humidity,
                          !.gas_ohms = snap.gas_ohms,
                          !.dew_point_c = snap.dew_point_c,
                          !.fire_risk_index = snap.fire_risk_index,
                          !.fire_risk_level = snap.fire_risk_level,
                          !.air_quality_index = snap.air_quality_index,
                          !.air_quality_level = snap.air_quality_level,
                          !.battery_percent = snap.battery_percent,
                          !.battery_mv = snap.battery_mv,
                          !.altitude_m = snap.altitude_m,
                          !.vin_mv = snap.vin_mv,
                          !.vout_mv = snap.vout_mv,
                          !.load_current_ma = snap.load_current_ma,
                          !.csv_line = CsvLine(snap)])
    /\ UNCHANGED <<current_log_file, current_log_handle, current_cwd,
                   vbat_min_cached, vbat_min_queries, gas_baseline, now,
                   handles, files, spawned, served>>

\* ---------------------------------------------------------- system stats
\* What the probes of get_system_stats may find; <<>> is a probe that
\* raises.  The thermal zone in millidegrees; the 1-minute load in
\* hundredths; MemTotal and MemAvailable of /proc/meminfo in kB (the kernel
\* reports MemAvailable as 0 when nothing is left to reclaim); the total,
\* used and free bytes of the log directory's file system; the words that
\* hostname -I prints (none when no address is assigned).
CpuReads == {None, Some(0), Some(45000)}
LoadReads == {None, Some(0), Some(150)}
MemReads == {None} \cup {Some([total |-> 1024000, avail |-> a]) :
                            a \in {0, 512000}}
DiskReads == {None, Some([total |-> 1000, used |-> 250, free |-> 750])}
IpReads == {None, Some(<<>>), Some(<<"10.0.0.5", "fe80::1">>)}

\* Lines 224-278: each probe in its own try block; the fields, by the names
\* of the result.  The memory in kB (1/1024 MB) and the free disk space in
\* bytes (1/1024^3 GB), the percentage exact for the readings above.
SystemStats(cpu, load, mem, disk, ip) ==
    LET mem_total_kb == IF mem = None THEN None ELSE Some(Val(mem).total)
        mem_avail_kb == IF mem = None THEN None ELSE Some(Val(mem).avail)
        \* line 250, if mem_total_kb and mem_avail_kb: None and 0 are false
        both == /\ mem_total_kb \notin {None, Some(0)}
                /\ mem_avail_kb \notin {None, Some(0)}
        ip_out == IF ip = None THEN <<>> ELSE Val(ip)
    IN [cpu_temp_c |-> cpu,
        load_1m |-> load,
        mem_total_mb |-> IF both THEN mem_total_kb ELSE None,
        mem_used_mb |-> IF both THEN Some(Val(mem_total_kb) - Val(mem_avail_kb))
                        ELSE None,
        disk_free_gb |-> IF disk = None THEN None ELSE Some(Val(disk).free),
        disk_used_pct |-> IF disk = None THEN None
                          ELSE Some((Val(disk).used * 100) \div Val(disk).total),
        ip_address |-> IF ip_out = <<>> THEN None ELSE Some(ip_out[1])]

\* A call of get_system_stats: the response holds what the probes found and
\* the fields returned.
get_system_stats(t) ==
    /\ Accept(t)
    /\ \E cpu \in CpuReads, load \in LoadReads, mem \in MemReads,
          disk \in DiskReads, ip \in IpReads :
          Return(t, [Resp(t, "get_system_stats") EXCEPT
                        !.sys_stats =
                            [probes |-> [cpu |-> cpu, load |-> load,
                                         mem |-> mem, disk |-> disk,
                                         ip |-> ip],
                             fields |-> SystemStats(cpu, load, mem, disk, ip)]])
    /\ UNCHANGED <<current_log_file, current_log_handle, current_cwd,
                   vbat_min_cached, vbat_min_queries, gas_baseline, now,
                   handles, files, spawned, served>>

\* -------------------------------------------------------- specifications
Init ==
    /\ current_log_file = None
    /\ current_log_handle = None
    /\ current_cwd = Home
    /\ vbat_min_cached = None
    /\ vbat_min_queries = 0
    /\ gas_baseline = None
    /\ now = 0
    /\ handles = <<>>
    /\ files = [p \in Paths |-> <<>>]
    /\ spawned = <<>>
    /\ pc = [t \in Threads |-> "idle"]
    /\ loc = [t \in Threads |-> NoLocals]
    /\ response = None
    /\ served = <<>>
    /\ nreq = 0

\* The first statement of each logging handler: a thread takes a request.
LogBegin(t) ==
    \/ start_log_path(t)
    \/ stop_log_check(t)
    \/ telemetry_snapshot(t)

\* The later statements of the logging handlers.
LogStep(t) ==
    \/ start_log_open(t)
    \/ start_log_assign(t)
    \/ start_log_note(t)
    \/ start_log_header(t)
    \/ start_log_flush(t)
    \/ stop_log_close(t)
    \/ stop_log_clear(t)
    \/ telemetry_check(t)
    \/ telemetry_write(t)
    \/ telemetry_flush(t)

Environment ==
    \/ Tick
    \/ \E h \in 1..Len(handles) : Finalize(h)

\* Requests served concurrently, one thread each.
Next ==
    \/ nreq < MaxRequests /\ \E t \in Threads : LogBegin(t)
    \/ \E t \in Threads : LogStep(t)
    \/ Environment

Spec == Init /\ [][Next]_vars

\* Requests served one after the other: a request begins only when no other
\* is in flight.
NextSeq ==
    \/ AllIdle /\ nreq < MaxSeqRequests /\ \E t \in Threads : LogBegin(t)
    \/ \E t \in Threads : LogStep(t)
    \/ Environment

SpecSeq == Init /\ [][NextSeq]_vars

\* The command channel, one command after the other.
CmdStep(t) ==
    \/ run_command_cd_resolve(t)
    \/ run_command_cd_assign(t)
    \/ run_command_exec(t)

NextCmd ==
    \/ AllIdle /\ nreq < MaxCmds /\ \E t \in Threads : run_command_check(t)
    \/ \E t \in Threads : CmdStep(t)

SpecCmd == Init /\ [][NextCmd]_vars

\* The command channel with the requests served concurrently, one thread
\* each: the statements of two run_command calls interleave.
NextCmdConc ==
    \/ nreq < MaxConcCmds /\ \E t \in Threads : run_command_check(t)
    \/ \E t \in Threads : CmdStep(t)

SpecCmdConc == Init /\ [][NextCmdConc]_vars

\* The battery estimate on its own, one read after the other.
NextBattery ==
    nreq < MaxBatteryReads /\ \E t \in Threads : get_battery_percent(t)

SpecBattery == Init /\ [][NextBattery]_vars

\* The air-quality index on its own, one call after the other.
AirStep(t) ==
    \/ compute_air_quality_index_assign(t)
    \/ compute_air_quality_index_compute(t)

NextAir ==
    \/ AllIdle /\ nreq < MaxAirCalls
          /\ \E t \in Threads : compute_air_quality_index_check(t)
    \/ \E t \in Threads : AirStep(t)

SpecAir == Init /\ [][NextAir]_vars

\* The air-quality index called by telemetry requests that are served
\* concurrently, one thread each (telemetry, line 863; get_bme_readings,
\* line 207): nothing is locked, and the statements of two calls interleave.
NextAirConc ==
    \/ nreq < MaxConcAirCalls
          /\ \E t \in Threads : compute_air_quality_index_check(t)
    \/ \E t \in Threads : AirStep(t)

SpecAirConc == Init /\ [][NextAirConc]_vars

\* The environmental derivations on their own, one call after the other,
\* all made by one thread.
FireCaller == CHOOSE t \in Threads : TRUE

NextFire ==
    /\ nreq < MaxFireCalls
    /\ \/ compute_fire_risk_index(FireCaller)
       \/ get_bme_readings(FireCaller)

SpecFire == Init /\ [][NextFire]_vars

\* The formatting of the CSV line on its own, one snapshot after the other.
NextLine ==
    \/ nreq < MaxLines /\ telemetry_line(FireCaller)
    \/ Tick

SpecLine == Init /\ [][NextLine]_vars

\* The host-health probes on their own, one cycle after the other.
NextStats == nreq < MaxStatsCalls /\ get_system_stats(FireCaller)

SpecStats == Init /\ [][NextStats]_vars

\* ================================================================ claims
Last == Val(response)
Returned(handler) ==
    /\ response # None
    /\ Last.handler = handler
    /\ Last.status = "returned"
Rows(lines) == Cardinality({i \in 1..Len(lines) : lines[i] = ROW_LINE})

\* C1: at most one log file handle is open at any time: a start_log issued
\* while a session is Recording has closed the prior handle before the new
\* file is open.
C1_AtMostOneHandleOpen == Cardinality(OpenHandles) <= 1

\* C2: the telemetry row append never reaches a handle that stop_log has
\* already closed (ValueError at line 918) or cleared (AttributeError there).
C2_NoAppendToStoppedHandle ==
    response # None =>
        ~(/\ Last.handler = "telemetry"
          /\ Last.line = 918
          /\ Last.exc \in {"ValueError", "AttributeError"})

\* C3: in every log file the header line comes before any data row.
C3_HeaderBeforeRows ==
    \A p \in Paths : \A i \in 1..Len(files[p]) :
        files[p][i] = ROW_LINE =>
            \E j \in 1..(i - 1) : files[p][j] = HEADER_LINE

\* C4: every start_log opens a path different from the path of every
\* earlier start_log.
C4_PathsDistinct ==
    \A i, j \in 1..Len(handles) :
        i # j => handles[i].path # handles[j].path

\* Between requests, the rows in the active session's file are as many as
\* the telemetry requests served since the session's start_log.
C5_RowsMatchServed ==
    AllIdle =>
        \A h \in 1..Len(handles) :
            current_log_handle = Some(h) =>
                Rows(files[handles[h].path]) = served[h]

\* A telemetry request that finds no session returns its snapshot and
\* touches no file.
C5_IdleAppendsNothing ==
    \A t \in Threads :
        (pc[t] = "tel_check" /\ pc'[t] # pc[t] /\ current_log_handle = None) =>
            /\ pc'[t] = "idle"
            /\ response' # None
            /\ Val(response').handler = "telemetry"
            /\ Val(response').status = "returned"
            /\ UNCHANGED <<files, handles, served>>

C6_StopClearsSession ==
    (Returned("stop_log") /\ Last.recording /\ AllIdle) =>
        /\ current_log_handle = None
        /\ current_log_file = None

\* The step in which a stop_log request is taken: it goes on to line 812 or
\* returns at once.
StopLogCalled ==
    /\ nreq' = nreq + 1
    /\ \/ \E t \in Threads : pc[t] = "idle" /\ pc'[t] = "stop_close"
       \/ /\ pc' = pc
          /\ response' # None
          /\ Val(response').handler = "stop_log"

C7_IdleStopStep ==
    (StopLogCalled /\ current_log_handle = None) =>
        /\ pc' = pc
        /\ Val(response').status = "returned"
        /\ Val(response').success
        /\ UNCHANGED <<current_log_file, current_log_handle, current_cwd,
                       vbat_min_cached, vbat_min_queries, gas_baseline, handles, files,
                       spawned, served>>

\* C7: a stop_log called while Idle reports success and changes nothing: no
\* file or file object, and neither the session state, the cursor nor the
\* calibration state.
C7_IdleStopIsNoOp == [][C7_IdleStopStep]_vars

\* A stop_log that found no session has returned success.
C7_Witness ==
    /\ Returned("stop_log")
    /\ Last.success
    /\ ~Last.recording
    /\ current_log_handle = None

\* C8: when open fails in start_log the failure comes back as a structured
\* result with the error flag set, no exception leaves the handler, and the
\* recorded path is the path of the open handle (no path without a handle).
C8_OpenFailureIsStructured ==
    (response # None /\ Last.handler = "start_log" /\ Last.line = 794) =>
        /\ Last.status = "returned"
        /\ Last.error
        /\ IF current_log_handle = None
           THEN current_log_file = None
           ELSE current_log_file = Some(handles[Val(current_log_handle)].path)

\* The command a run_command request was called with, in the step that
\* takes the request: it returns at once or goes on to the cd branch or to
\* the shell.
CmdTaken(c) ==
    /\ nreq' = nreq + 1
    /\ \/ \E t \in Threads :
            /\ pc[t] = "idle"
            /\ pc'[t] \in {"cmd_cd", "cmd_exec"}
            /\ loc'[t].cmd = c
       \/ /\ pc' = pc
          /\ response' # None
          /\ Val(response').handler = "run_command"
          /\ Val(response').cmd = c

C9_BlockedStep ==
    \A c \in Commands :
        (/\ CmdTaken(c)
         /\ ~IsBlank(c)
         /\ Len(c) <= MAX_CMD_LEN
         /\ ~StartsWith(Strip(c), CD)
         /\ \E d \in dangerous : Contains(Lower(c), d)
         /\ ~Contains(Lower(c), REBOOT)) =>
            /\ pc' = pc
            /\ Val(response').status = "returned"
            /\ Val(response').error
            /\ Val(response').output = "Blocked: dangerous command"
            /\ Val(response').cwd = current_cwd
            /\ UNCHANGED <<spawned, current_cwd>>

\* C9: a non-blank command of at most 200 characters that is no cd command
\* (line 831 tests the command with the surrounding whitespace stripped),
\* matches the denylist in any letter case and holds no "reboot" is blocked:
\* error=true, no process spawned, the cursor unchanged.
C9_DenylistBlocks == [][C9_BlockedStep]_vars

SHUTDOWN_H_NOW == <<"s", "h", "u", "t", "d", "o", "w", "n", " ", "-", "h", " ", "n", "o", "w">>

\* "shutdown -h now" was blocked: nothing spawned, the cursor where it was.
C9_Witness ==
    /\ Returned("run_command")
    /\ Last.cmd = SHUTDOWN_H_NOW
    /\ Last.error
    /\ spawned = <<>>
    /\ current_cwd = Home

C10_CarveOutStep ==
    /\ \A c \in Commands :
        (/\ CmdTaken(c)
         /\ \E d \in dangerous : Contains(Lower(c), d)
         /\ Contains(Lower(c), REBOOT)) =>
            IF IsBlank(c) \/ Len(c) > MAX_CMD_LEN
            THEN /\ pc' = pc
                 /\ Val(response').output # "Blocked: dangerous command"
            ELSE \E t \in Threads :
                    /\ pc[t] = "idle"
                    /\ pc'[t] = IF StartsWith(Strip(c), CD)
                                THEN "cmd_cd" ELSE "cmd_exec"
                    /\ loc'[t].cmd = c
    /\ \A t \in Threads :
        (pc[t] = "cmd_exec" /\ pc'[t] # pc[t]) =>
            /\ spawned' = Append(spawned, [cmd |-> loc[t].cmd,
                                           cwd |-> current_cwd])
            /\ Val(response').cmd = loc[t].cmd
            /\ Val(response').output \in Outcomes
            /\ Val(response').error = (Val(response').output # "stdout")
            /\ UNCHANGED current_cwd

\* C10: a command that matches the denylist and also holds "reboot" (in any
\* letter case) is not blocked: it goes where a command without a denylist
\* match goes, and a non-blank one of at most 200 characters that is no cd
\* command is handed to the shell as it is.
C10_RebootCarveOut == [][C10_CarveOutStep]_vars

SUDO_RM_REBOOT == <<"s", "u", "d", "o", " ", "r", "m", " ", "-", "r", "f", " ", "/", " ", ";", " ", "r", "e", "b", "o", "o", "t">>

\* "sudo rm -rf / ; reboot" was handed to the shell and ran.
C10_Witness ==
    /\ Returned("run_command")
    /\ Last.cmd = SUDO_RM_REBOOT
    /\ Last.output = "stdout"
    /\ ~Last.error
    /\ spawned = <<[cmd |-> SUDO_RM_REBOOT, cwd |-> Home]>>

\* The request was refused for its length: nothing spawned, the cursor and
\* every thread where they were.
TooLongResult ==
    /\ pc' = pc
    /\ Val(response').status = "returned"
    /\ Val(response').error
    /\ Val(response').output = "Command too long"
    /\ Val(response').cwd = current_cwd
    /\ UNCHANGED <<spawned, current_cwd>>

\* C11 as stated: every input longer than 200 characters is rejected with an
\* error result, spawns no process and leaves the cursor unchanged, whatever
\* it contains, whitespace included.
C11_EveryLongInputRejected ==
    [][\A c \in Commands : (CmdTaken(c) /\ Len(c) > 200) => TooLongResult]_vars

\* C11, amended: every input longer than 200 characters that is not blank
\* (line 823 tests for a blank command before line 826 tests the length) is
\* rejected with an error result, spawns no process and leaves the cursor
\* unchanged, whatever else it contains: a cd command, a denylisted word, the
\* word reboot.
C11_NonBlankLongInputRejected ==
    [][\A c \in Commands :
          (CmdTaken(c) /\ Len(c) > 200 /\ ~IsBlank(c)) => TooLongResult]_vars

CD_LONG == <<"c", "d", " ">> \o Pad("x", 198)

\* A cd command of 201 characters was rejected: the cursor still at home.
C11_Witness ==
    /\ Returned("run_command")
    /\ Last.cmd = CD_LONG
    /\ Len(Last.cmd) = 201
    /\ Last.error
    /\ Last.output = "Command too long"
    /\ spawned = <<>>
    /\ current_cwd = Home

LS == <<"l", "s">>
SLASH_A == <<"/", "a">>

\* A step that changes the cursor is the assignment at line 839 of a cd
\* command whose resolution succeeded, and it returns error=false with the
\* new cursor; taking a request (blank, over-long and blocked commands return
\* in that step), a failed resolution and an execution change nothing of it.
C12_CursorStep ==
    /\ (current_cwd' # current_cwd) =>
          /\ \E t \in Threads :
                /\ pc[t] = "cmd_cd_assign"
                /\ pc'[t] = "idle"
                /\ StartsWith(Strip(loc[t].cmd), CD)
                /\ Val(response').cmd = loc[t].cmd
          /\ ~Val(response').error
          /\ Val(response').cwd = current_cwd'
    /\ (nreq' # nreq) => UNCHANGED current_cwd
    /\ \A t \in Threads :
          (pc[t] \in {"cmd_cd", "cmd_exec"} /\ pc'[t] # pc[t]) =>
              UNCHANGED current_cwd
    /\ (response' # response /\ Val(response').error) => UNCHANGED current_cwd

\* C12: over any sequence of run_command calls the cursor changes only in a
\* step that is a successful cd resolution; blank inputs, over-long inputs,
\* blocked commands and executed commands, whether they succeed, fail or time
\* out, leave the cursor exactly as it was.
C12_CursorChangesOnlyByCd == [][C12_CursorStep]_vars

\* After "cd /a", "ls" ran into the timeout and the cursor is still /a.
C12_Witness ==
    /\ Returned("run_command")
    /\ Last.cmd = LS
    /\ Last.output = "TimeoutExpired"
    /\ Last.error
    /\ spawned = <<[cmd |-> LS, cwd |-> SLASH_A]>>
    /\ current_cwd = SLASH_A

\* The cursor after the cd command c, resolved against the cursor cwd.
AfterCd(cwd, c) == NewDir(cwd, CdTarget(Strip(c)))

\* The step that ends the second of the first two commands, both of them cd
\* commands that resolved: the other has returned, this one assigns the
\* cursor.  The cursor it leaves is the cursor of the two run one after the
\* other from the home directory, in one order or the other.
C13_SecondCdStep ==
    \A t \in Threads :
        (/\ pc[t] = "cmd_cd_assign"
         /\ pc'[t] = "idle"
         /\ nreq = 2
         /\ \A u \in Threads \ {t} : pc[u] = "idle"
         /\ Returned("run_command")
         /\ ~Last.error
         /\ ~IsBlank(Last.cmd)
         /\ StartsWith(Strip(Last.cmd), CD)) =>
            current_cwd' \in
                { AfterCd(AfterCd(Home, Last.cmd), loc[t].cmd),
                  AfterCd(AfterCd(Home, loc[t].cmd), Last.cmd) }

\* C13: two cd commands resolved concurrently do not race on the cursor: in
\* every interleaving the final cursor is the cursor of the two commands run
\* one after the other in some order.
C13_ConcurrentCdSerializable == [][C13_SecondCdStep]_vars

CD_DOTDOT == <<"c", "d", " ", ".", ".">>
CD_A == <<"c", "d", " ", "/", "a">>
CD_X == <<"c", "d", " ", "x">>
SLASH_A_B == <<"/", "a", "/", "b">>

\* A path in normal form: below the root, no empty component, no "." and no
\* "..".
IsNormal(p) ==
    \/ p = <<"/">>
    \/ /\ StartsWith(p, <<"/">>)
       /\ \A i \in 2..Len(SplitSlash(p)) :
             SplitSlash(p)[i] \notin {<<>>, DOT, DOTDOT}

\* The step in which a cd command whose resolution succeeded ends: the
\* cursor becomes the target itself when the target is absolute, and the
\* cursor joined with the target, in normal form, when it is relative; the
\* response has empty output, error=false and the new cursor.
C14_CdStep ==
    \A t \in Threads :
        (pc[t] = "cmd_cd_assign" /\ pc'[t] = "idle") =>
            LET target == CdTarget(Strip(loc[t].cmd))
            IN /\ IF StartsWith(target, <<"/">>)
                  THEN current_cwd' = target
                  ELSE /\ current_cwd' = NormPath(Join(current_cwd, target))
                       /\ IsNormal(current_cwd')
               /\ (loc[t].cmd = CD_DOTDOT /\ current_cwd = SLASH_A_B) =>
                     current_cwd' = SLASH_A
               /\ (loc[t].cmd = CD_DOTDOT /\ current_cwd = Home) =>
                     current_cwd' = <<"/">>
               /\ (loc[t].cmd = CD_X /\ current_cwd = SLASH_A) =>
                     current_cwd' = <<"/", "a", "/", "x">>
               /\ (loc[t].cmd = CD_A) => current_cwd' = SLASH_A
               /\ Val(response').status = "returned"
               /\ Val(response').cmd = loc[t].cmd
               /\ Val(response').output = ""
               /\ ~Val(response').error
               /\ Val(response').cwd = current_cwd'

\* C14: a cd command resolves as path arithmetic against the cursor: a
\* relative target is joined to the cursor and normalized (cursor "/a/b"
\* with "cd .." becomes "/a"), an absolute target replaces the cursor as it
\* is, and the result has empty output, error=false and the new cursor.
C14_CdIsPathArithmetic == [][C14_CdStep]_vars

\* With the cursor at /a/b, "cd .." returned the cursor /a.
C14_Witness ==
    /\ Returned("run_command")
    /\ Last.cmd = CD_DOTDOT
    /\ Last.output = ""
    /\ ~Last.error
    /\ Last.cwd = SLASH_A
    /\ current_cwd = SLASH_A
    /\ nreq = 2
    /\ spawned = <<>>

\* No command line handed to the shell begins with cd, with or without
\* whitespace before it.
C15_NoCdSpawned ==
    \A i \in 1..Len(spawned) : ~StartsWith(Strip(spawned[i].cmd), CD)

\* An input beginning with cd never goes on to the shell, the statements of
\* the cd branch spawn nothing, and a resolution that fails returns the error
\* text with error=true and the cursor, which stays as it was.
C15_CdStep ==
    /\ \A c \in Commands :
          (CmdTaken(c) /\ StartsWith(c, CD)) =>
              /\ \A t \in Threads : pc'[t] # "cmd_exec"
              /\ UNCHANGED <<spawned, current_cwd>>
    /\ \A t \in Threads :
          (pc[t] \in {"cmd_cd", "cmd_cd_assign"} /\ pc'[t] # pc[t]) =>
              /\ pc'[t] # "cmd_exec"
              /\ UNCHANGED spawned
    /\ \A t \in Threads :
          (pc[t] = "cmd_cd" /\ pc'[t] = "idle") =>
              /\ Val(response').status = "returned"
              /\ Val(response').cmd = loc[t].cmd
              /\ Val(response').error
              /\ Val(response').output = "Exception"
              /\ Val(response').cwd = current_cwd
              /\ UNCHANGED current_cwd

\* C15: no external process is ever spawned for an input beginning with cd,
\* and on a resolution failure the cursor keeps its previous value and the
\* error text is returned with error=true.
C15_CdSpawnsNothing ==
    /\ []C15_NoCdSpawned
    /\ [][C15_CdStep]_vars

\* After "cd /a", the resolution of "cd x" failed: the cursor is still /a
\* and nothing was spawned.
C15_Witness ==
    /\ Returned("run_command")
    /\ Last.cmd = CD_X
    /\ Last.error
    /\ Last.output = "Exception"
    /\ Last.cwd = SLASH_A
    /\ current_cwd = SLASH_A
    /\ spawned = <<>>

\* The step in which a command handed to the shell ends.  The response's
\* output names what check_output did: the output of a command that exited
\* with status 0 is returned with error=false, every failure (non-zero exit,
\* timeout, unusable working directory) is returned as its text with
\* error=true, and the cursor is returned unchanged either way.
C16_ExecStep ==
    \A t \in Threads :
        (pc[t] = "cmd_exec" /\ pc'[t] = "idle") =>
            /\ Val(response').status = "returned"
            /\ Val(response').cmd = loc[t].cmd
            /\ Val(response').cwd = current_cwd
            /\ UNCHANGED current_cwd
            /\ IF Val(response').output \in ExitZero
               THEN ~Val(response').error
               ELSE /\ Val(response').error
                    /\ Val(response').output \in
                          {"CalledProcessError", "TimeoutExpired", "OSError"}

\* C16: a command that reaches execution and fails (non-zero exit, timeout
\* after 15 seconds, or a working directory that cannot be used) returns
\* error=true with the failure text and the unchanged cursor; a command that
\* exits zero returns its output with error=false.
C16_ExecResult == [][C16_ExecStep]_vars

\* The step that takes a command of whitespace only, or of nothing: it
\* returns in that step with empty output, error=false and the cursor, and
\* nothing of the program's state changes.
C17_BlankStep ==
    \A c \in Commands :
        (CmdTaken(c) /\ \A i \in 1..Len(c) : c[i] \in WS) =>
            /\ pc' = pc
            /\ Val(response').status = "returned"
            /\ Val(response').output = ""
            /\ ~Val(response').error
            /\ Val(response').cwd = current_cwd
            /\ UNCHANGED <<current_log_file, current_log_handle, current_cwd,
                           vbat_min_cached, vbat_min_queries, gas_baseline, handles, files,
                           spawned, served, loc>>

\* C17: a blank or empty command is a no-op: run_command returns empty
\* output, error=false and the current cursor, spawns no process and changes
\* no state.
C17_BlankIsNoOp == [][C17_BlankStep]_vars

\* After "cd /a", a command of one space returned the cursor /a.
C17_Witness ==
    /\ Returned("run_command")
    /\ Last.cmd = <<" ">>
    /\ Last.output = ""
    /\ ~Last.error
    /\ Last.cwd = SLASH_A
    /\ current_cwd = SLASH_A
    /\ spawned = <<>>
    /\ nreq = 2

\* The last response is a battery estimate made from a reading.
Estimated ==
    /\ Returned("get_battery_percent")
    /\ Last.battery_mv # None

C19_PercentInRange ==
    Returned("get_battery_percent") =>
        IF Last.battery_mv = None
        THEN Last.battery_percent = None
        ELSE /\ Last.battery_percent # None
             /\ Val(Last.battery_percent) \in 0..100
             /\ (Val(Last.battery_mv) <= Val(vbat_min_cached)) =>
                    Last.battery_percent = Some(0)

\* A reading between the full voltage and a floor above it is estimated 0.
C19_Witness ==
    /\ Estimated
    /\ Last.battery_mv = Some(3501)
    /\ vbat_min_cached = Some(3600)
    /\ Last.battery_percent = Some(0)

\* Two estimates in a row made from readings: the floor is the cached one in
\* both, and the estimate of the higher reading is not the lower one.
C20_MonotoneStep ==
    (/\ Estimated
     /\ nreq' = nreq + 1
     /\ Val(response').handler = "get_battery_percent"
     /\ Val(response').battery_mv # None) =>
        /\ vbat_min_cached' = vbat_min_cached
        /\ (Val(Last.battery_mv) <= Val(Val(response').battery_mv)) =>
              Val(Last.battery_percent) <= Val(Val(response').battery_percent)
        /\ (Val(Val(response').battery_mv) <= Val(Last.battery_mv)) =>
              Val(Val(response').battery_percent) <= Val(Last.battery_percent)

\* C20: for a fixed cached floor the estimated battery percent is
\* non-decreasing in the voltage reading: mv1 <= mv2 implies
\* percent(mv1) <= percent(mv2), across the 0, interpolated and 100 branches.
C20_PercentMonotone == [][C20_MonotoneStep]_vars

\* The second of two estimates over the floor 3492: 3497 mV lies five eighths
\* of the way to the full voltage, 62.5, and is estimated 62.
C20_Witness ==
    /\ Estimated
    /\ nreq = 2
    /\ vbat_min_cached = Some(3492)
    /\ Last.battery_mv = Some(3497)
    /\ Last.battery_percent = Some(62)

\* The floor is unset before the first VBAT_MIN query and afterwards holds
\* what the query reported, or the fallback; the query went out at most once.
C21_FloorFromOneQuery ==
    /\ vbat_min_queries \in {0, 1}
    /\ (vbat_min_queries = 0) <=> (vbat_min_cached = None)
    /\ vbat_min_cached \in {None, Some(2950)} \cup VbatMinReadings

\* Once set, the floor stays, and no further query goes out.
C21_FloorStep ==
    (vbat_min_cached # None) =>
        UNCHANGED <<vbat_min_cached, vbat_min_queries>>

\* C21: the battery floor is obtained once and cached: once set (from the
\* calibration query, or the fallback 2950 when the query fails) the cached
\* floor never changes for the rest of the process, and over any sequence of
\* telemetry requests served one after the other the VBAT_MIN query is
\* issued at most once.
C21_FloorCachedOnce ==
    /\ []C21_FloorFromOneQuery
    /\ [][C21_FloorStep]_vars

\* Three telemetry requests were served, the last with a battery reading: the
\* one query failed and the floor is the fallback.
C21_Witness ==
    /\ AllIdle
    /\ nreq = 3
    /\ Returned("telemetry")
    /\ Last.battery_mv # None
    /\ vbat_min_cached = Some(2950)
    /\ vbat_min_queries = 1

\* C22: when the voltage read fails or yields no number, both battery
\* outputs are absent, never zero: in every telemetry snapshot, and in every
\* estimate, battery_percent is absent if and only if battery_mv is absent
\* and a percent that is present comes with the reading it was made from;
\* the failed read raises nothing, so that no telemetry request ends at the
\* battery read (line 864).
C22_BatteryAbsentTogether ==
    (response # None /\ Last.handler \in {"telemetry", "get_battery_percent"}) =>
        /\ (Last.battery_percent = None) <=> (Last.battery_mv = None)
        /\ Last.battery_percent # None =>
              Val(Last.battery_percent) =
                  BatteryPercent(Val(Last.battery_mv), Val(vbat_min_cached))
        /\ Last.status = "raised" => Last.line \in {863, 918, 919}

\* A telemetry request was served although VBAT could not be read: the
\* snapshot came back, with both battery fields absent.
C22_Witness ==
    /\ Returned("telemetry")
    /\ Last.success
    /\ Last.battery_percent = None
    /\ Last.battery_mv = None

AQ == "compute_air_quality_index"
\* The reading of the call that returned last is a resistance.
AirMeasured ==
    /\ Returned(AQ)
    /\ Last.gas_ohms # None
    /\ Val(Last.gas_ohms) > 0

C23_FirstCallStep ==
    /\ gas_baseline # None => gas_baseline' = gas_baseline
    /\ gas_baseline = None =>
          \A t \in Threads :
              /\ (pc[t] = "idle" /\ pc'[t] = "idle" /\ nreq' # nreq) =>
                    /\ ~AirMeasured'
                    /\ gas_baseline' = None
              /\ (pc[t] # "idle" /\ pc'[t] = "idle") =>
                    /\ loc[t].gas > 0
                    /\ gas_baseline' = Some(loc[t].gas)
                    /\ response' = Some(AirResult(t, Some(loc[t].gas),
                                                  Some(50), "Good"))

\* C23: with the calls made one after the other, the first air-quality call
\* with a positive gas reading returns (50, "Good") whatever the reading is
\* and fixes the baseline to that reading (a call made while no baseline is
\* fixed leaves none only if its reading is missing or not positive); a
\* baseline that is fixed keeps its value over every later call.
C23_FirstReadingFixesBaseline == [][C23_FirstCallStep]_vars

\* The first positive reading came after a reading that was not positive,
\* was far from any usual resistance, and returned (50, "Good").
C23_Witness ==
    /\ AllIdle
    /\ nreq = 2
    /\ AirMeasured
    /\ Last.gas_ohms = Some(5000)
    /\ gas_baseline = Some(5000)
    /\ Last.air_quality_index = Some(50)
    /\ Last.air_quality_level = "Good"

\* The baseline was fixed by an earlier call, and the call that returned
\* last was made with half of it.
HalfOfBaseline ==
    /\ AirMeasured
    /\ gas_baseline # None
    /\ 2 * Val(Last.gas_ohms) = Val(gas_baseline)

\* C24 as stated: after the baseline is fixed, an air-quality call with
\* gas == baseline/2 returns an index greater than 100 and a tier of
\* "Unhealthy-SG" or worse.
C24_HalfBaselineAboveHundred ==
    HalfOfBaseline =>
        /\ Val(Last.air_quality_index) > 100
        /\ Last.air_quality_level \in
              {"Unhealthy-SG", "Unhealthy", "Very Unhealthy"}

\* C24, amended: after the baseline is fixed, an air-quality call with
\* gas == baseline/2 returns the index 100 exactly and the tier "Moderate".
C24_HalfBaselineIsHundred ==
    HalfOfBaseline =>
        /\ Last.air_quality_index = Some(100)
        /\ Last.air_quality_level = "Moderate"

\* A call with 10 ohms after the baseline was fixed to 20.
C24_Witness ==
    /\ AllIdle
    /\ HalfOfBaseline
    /\ gas_baseline = Some(20)
    /\ Last.gas_ohms = Some(10)
    /\ Last.air_quality_index = Some(100)

\* 50 + 50 * clamp(baseline / gas - 1, -1, 4), times gas, in the terms of
\* the claim.
AirExactTimesGas(gas, baseline) ==
    IF baseline >= 5 * gas THEN 250 * gas
    ELSE IF baseline <= 0 THEN 0
    ELSE 50 * baseline

\* C25: every air-quality call made with a resistance, the baseline being
\* fixed (the call that fixes it has the baseline for its reading), returns
\* index = round(50 + 50 * clamp(baseline/gas - 1, -1, 4)), an integer
\* nearest to that value, which lies in 0..250, with the tier "Good" for an
\* index <= 50, "Moderate" <= 100, "Unhealthy-SG" <= 150, "Unhealthy" <= 200
\* and "Very Unhealthy" above.
C25_IndexAndTier ==
    AirMeasured =>
        LET aqi == Val(Last.air_quality_index)
            gas == Val(Last.gas_ohms)
            level == Last.air_quality_level
            exact == AirExactTimesGas(gas, Val(gas_baseline))
        IN /\ gas_baseline # None
           /\ Last.air_quality_index # None
           /\ 2 * (aqi * gas - exact) <= gas
           /\ 2 * (exact - aqi * gas) <= gas
           /\ aqi \in 0..250
           /\ (level = "Good") <=> (aqi <= 50)
           /\ (level = "Moderate") <=> (50 < aqi /\ aqi <= 100)
           /\ (level = "Unhealthy-SG") <=> (100 < aqi /\ aqi <= 150)
           /\ (level = "Unhealthy") <=> (150 < aqi /\ aqi <= 200)
           /\ (level = "Very Unhealthy") <=> (200 < aqi)

\* A later call whose ratio is beyond the clamp: 1 ohm against a baseline
\* of 5000 gives the index 250.
C25_Witness ==
    /\ AllIdle
    /\ AirMeasured
    /\ gas_baseline = Some(5000)
    /\ Last.gas_ohms = Some(1)
    /\ Last.air_quality_index = Some(250)
    /\ Last.air_quality_level = "Very Unhealthy"

C26_AssignStep ==
    /\ gas_baseline # None => gas_baseline' = gas_baseline
    /\ \A t \in Threads :
          (pc[t] = "aq_assign" /\ pc'[t] = "idle") => gas_baseline = None

\* C26: when telemetry requests run concurrently, the air-quality baseline
\* is still assigned at most once in the process lifetime, and only the
\* single call that assigns it returns the fixed first-reading result
\* (50, "Good") of line 171: a baseline that is set is never set again, and
\* a call that returns from line 171 found no baseline set.
C26_BaselineAssignedOnce == [][C26_AssignStep]_vars

BME == "get_bme_readings"
\* The call that returned last read the sensor and derived the dew point
\* and the fire risk from the temperature and the humidity read.
Derived(r) ==
    /\ r # None
    /\ Val(r).handler = BME
    /\ Val(r).status = "returned"
TempOf(r) == Val(Val(r).temperature_c)
HumidityOf(r) == Val(Val(r).humidity)
ScoreOf(r) == Val(Val(r).fire_risk_index)
\* score a <= score b
ScoreLeq(a, b) == a.u < b.u \/ (a.u = b.u /\ a.e <= b.e)

C27_HumidityStep ==
    (/\ Derived(response) /\ Derived(response')
     /\ TempOf(response) = TempOf(response')
     /\ HumidityOf(response) <= 100
     /\ HumidityOf(response) >= HumidityOf(response')
     /\ HumidityOf(response') >= 0)
    => ScoreLeq(ScoreOf(response), ScoreOf(response'))

\* C27: with the temperature fixed, the fire-risk score never decreases as
\* the humidity decreases: of two readings with the same T and humidities
\* rh1 >= rh2, down to and including rh2 = 0, the second has a score at
\* least that of the first, the dew point being derived from the same T and
\* rh and the dew spread being 0 when the dew point is undefined.
C27_ScoreMonotoneInHumidity == [][C27_HumidityStep]_vars

C28_TemperatureStep ==
    (/\ Derived(response) /\ Derived(response')
     /\ HumidityOf(response) = HumidityOf(response')
     /\ TempOf(response) <= TempOf(response'))
    => ScoreLeq(ScoreOf(response), ScoreOf(response'))

\* C28: with the humidity fixed, the fire-risk score never decreases as the
\* temperature increases: of two readings with the same rh and temperatures
\* T1 <= T2 the second has a score at least that of the first, the dew point
\* being derived from the same T and rh.
C28_ScoreMonotoneInTemperature == [][C28_TemperatureStep]_vars

\* The call that returned last computed a fire risk from a temperature and
\* a humidity that were both present.
Scored ==
    /\ response # None
    /\ Last.status = "returned"
    /\ Last.handler \in {BME, "compute_fire_risk_index"}
    /\ Last.temperature_c # None
    /\ Last.humidity # None

\* C29: for all present temperature and humidity inputs and any dew point,
\* present or absent, the fire-risk score lies in 0..100 (0..30000 in units
\* of 1/300) and its tier is "Low" for a score < 20, "Moderate" < 40,
\* "High" < 60, "Very High" < 80 and "Extreme" otherwise.
C29_ScoreRangeAndTier ==
    Scored =>
        /\ Last.fire_risk_index # None
        /\ LET score == Val(Last.fire_risk_index)
               level == Last.fire_risk_level
               Below(points) == score.u < 300 * points
           IN /\ score.u \in 0..30000
              /\ score.e >= 0
              /\ score.u = 30000 => score.e = 0
              /\ (level = "Low") <=> Below(20)
              /\ (level = "Moderate") <=> (~Below(20) /\ Below(40))
              /\ (level = "High") <=> (~Below(40) /\ Below(60))
              /\ (level = "Very High") <=> (~Below(60) /\ Below(80))
              /\ (level = "Extreme") <=> ~Below(80)

\* 5 degrees, 60 % and no dew point: the score is 20 exactly, the tier
\* "Moderate".
C29_Witness ==
    /\ Scored
    /\ Last.handler = "compute_fire_risk_index"
    /\ Last.temperature_c = Some(5)
    /\ Last.humidity = Some(60)
    /\ Last.dew_point_c = None
    /\ Val(Last.fire_risk_index).u = 6000
    /\ Last.fire_risk_level = "Moderate"

\* C30: a snapshot with temperature_c = 32 and humidity = 15 has a fire-risk
\* tier of "Very High" or "Extreme", whatever the dew-point term contributes:
\* with the dew point derived from the reading, and with any dew point or
\* none passed in its place.
C30_HotDryIsVeryHighOrExtreme ==
    (Scored /\ Last.temperature_c = Some(32) /\ Last.humidity = Some(15)) =>
        /\ Last.fire_risk_level \in {"Very High", "Extreme"}
        /\ Val(Last.fire_risk_index).u >= 20850
        /\ Val(Last.fire_risk_index).u <= 26850

\* The reading 32 degrees, 15 %: the derived dew point is 2.12 degrees, the
\* score 89.5 and the tier "Extreme".
C30_Witness ==
    /\ Derived(response)
    /\ Last.temperature_c = Some(32)
    /\ Last.humidity = Some(15)
    /\ Val(Last.dew_point_c).c = 212
    /\ Val(Last.fire_risk_index).u = 26850
    /\ Last.fire_risk_level = "Extreme"

\* C31: a missing or failed raw sensor reading never aborts the telemetry
\* request: no telemetry request ends with the exception of a sensor read
\* (get_bme_readings, line 863); the snapshot is returned, with the fields
\* derived from the missing reading absent.
C31_SensorFailureNeverAborts ==
    (response # None /\ Last.handler = "telemetry") =>
        ~(Last.status = "raised" /\ Last.exc = "SensorError")

\* The number that a string of decimal digits, with or without a sign,
\* stands for.
DigitValue(ch) == CHOOSE d \in 0..9 : DIGITS[d + 1] = ch
RECURSIVE ReadNat(_)
ReadNat(s) ==
    IF Len(s) = 1 THEN DigitValue(s[1])
    ELSE 10 * ReadNat(SubSeq(s, 1, Len(s) - 1)) + DigitValue(s[Len(s)])
ReadInt(s) == IF s[1] = "-" THEN 0 - ReadNat(Tail(s)) ELSE ReadNat(s)

\* A column of the line against an integer field of the snapshot: empty
\* exactly when the field is absent, otherwise the digits of its value.
IntColumn(col, field) ==
    /\ (col = <<>>) <=> (field = None)
    /\ field # None => ReadInt(col) = Val(field)
\* The same for a field that is formatted with decimals, and for a level.
FixedColumn(col, field) == (col = <<>>) <=> (field = None)
LevelColumn(col, level) ==
    /\ (col = <<>>) <=> (level = "")
    /\ level # "" => col = <<level>>

C33_ProbesFailIndependently ==
    Returned("get_system_stats") =>
        LET p == Last.sys_stats.probes
            f == Last.sys_stats.fields
        IN /\ (p.cpu = None) <=> (f.cpu_temp_c = None)
           /\ (p.load = None) <=> (f.load_1m = None)
           /\ (p.mem = None) <=> (f.mem_total_mb = None)
           /\ (p.mem = None) <=> (f.mem_used_mb = None)
           /\ (p.disk = None) <=> (f.disk_free_gb = None)
           /\ (p.disk = None) <=> (f.disk_used_pct = None)
           /\ (p.ip = None) <=> (f.ip_address = None)

\* The reading of a call was missing or not positive.
NoReading(r) ==
    /\ r # None
    /\ Val(r).handler = AQ
    /\ (Val(r).gas_ohms = None \/ Val(Val(r).gas_ohms) <= 0)
\* The step ends a call.
CallEnds ==
    \E t \in Threads : pc'[t] = "idle" /\ (pc[t] # "idle" \/ nreq' # nreq)

C34_NoReadingStep ==
    /\ (CallEnds /\ NoReading(response')) =>
          /\ Last'.status = "returned"
          /\ Last'.air_quality_index = None
          /\ Last'.air_quality_level = ""
          /\ UNCHANGED <<gas_baseline, vbat_min_cached, current_log_file,
                         current_log_handle, current_cwd, handles, files,
                         spawned>>
    /\ (CallEnds /\ NoReading(response) /\ gas_baseline = None
                 /\ ~NoReading(response')) =>
          /\ Last'.air_quality_index = Some(50)
          /\ Last'.air_quality_level = "Good"
          /\ gas_baseline' = Last'.gas_ohms

\* C34: an air-quality call with a missing or non-positive gas reading
\* returns an absent index and tier and leaves the calibration state
\* unchanged: it neither sets the baseline when none is fixed nor alters a
\* fixed one, so that the next positive reading, when none is fixed, is
\* still treated as the first valid reading.
C34_NoReadingLeavesCalibration == [][C34_NoReadingStep]_vars

\* A call without a reading was made after the baseline was fixed to 20
\* ohms: it returned no index, and the baseline is 20 ohms still.
C34_Witness ==
    /\ AllIdle
    /\ NoReading(response)
    /\ Last.gas_ohms = None
    /\ Last.air_quality_index = None
    /\ gas_baseline = Some(20)

\* The lines of the file that the current handle writes to.
CurrentLines == files[handles[Val(current_log_handle)].path]

\* C35: log output is flushed synchronously: whenever a start_log or
\* telemetry request has returned, the requests being served one after the
\* other, every line that request wrote (note, header or data row) has been
\* flushed to the file: no handle holds a line in its buffer, the file of a
\* started session ends with the header and the file of a recorded snapshot
\* ends with its row.
C35_FlushedOnReturn ==
    (AllIdle /\ (Returned("start_log") \/ Returned("telemetry"))) =>
        /\ \A h \in 1..Len(handles) : handles[h].buf = <<>>
        /\ Returned("start_log") =>
              /\ Recording
              /\ CurrentLines \in {<<HEADER_LINE>>, <<NOTE_LINE, HEADER_LINE>>}
        /\ (Returned("telemetry") /\ Last.recording) =>
              /\ Recording
              /\ CurrentLines[Len(CurrentLines)] = ROW_LINE

\* A snapshot was recorded into a session started with a note: the file
\* holds the note, the header and the row, the buffer nothing.
C35_Witness ==
    /\ AllIdle
    /\ Returned("telemetry")
    /\ Last.recording
    /\ CurrentLines = <<NOTE_LINE, HEADER_LINE, ROW_LINE>>
    /\ handles[Val(current_log_handle)].buf = <<>>

\* C36: a failure while appending the CSV row to the active session (log
\* I/O failure) does not prevent the telemetry request from returning its
\* snapshot: no telemetry request ends with the OSError of the write.
C36_LogFailureStillReturnsSnapshot ==
    (response # None /\ Last.handler = "telemetry") =>
        ~(Last.status = "raised" /\ Last.exc = "OSError" /\ Last.line = 918)

\* A file that has received a header keeps every line it holds.
SessionDataKept ==
    \A p \in Paths :
        (\E i \in 1..Len(files[p]) : files[p][i] = HEADER_LINE) =>
            /\ Len(files'[p]) >= Len(files[p])
            /\ SubSeq(files'[p], 1, Len(files[p])) = files[p]

\* C37: start_log never destroys data of an earlier session: after a
\* session's file has received its header and rows, no later start_log
\* truncates or overwrites that file.
C37_StartLogKeepsEarlierSessions == [][SessionDataKept]_vars

\* C38: with the cursor starting at the operator's home directory, an
\* absolute path, the cursor is an absolute path after every sequence of
\* run_command calls, and so is every directory a cd is about to store: a
\* relative target resolves to an absolute path and an absolute target to
\* itself.
C38_CursorIsAbsolute ==
    /\ IsAbs(current_cwd)
    /\ \A t \in Threads :
          pc[t] = "cmd_cd_assign" =>
              LET target == CdTarget(Strip(loc[t].cmd))
              IN /\ IsAbs(loc[t].new_dir)
                 /\ IsAbs(target) => loc[t].new_dir = target

\* After "cd /a", "cd x" moved the cursor to /a/x.
C38_Witness ==
    /\ Returned("run_command")
    /\ Last.cmd = CD_X
    /\ ~Last.error
    /\ Last.cwd = <<"/", "a", "/", "x">>
    /\ current_cwd = <<"/", "a", "/", "x">>
    /\ nreq = 2

====
